---- MODULE Spec2Model ----
(***************************************************************************)
(* A model of the configuration and naming core of ml2p: the resource     *)
(* name grammars of ml2p.cli_utils, the hyperparameter codec, the          *)
(* SageMakerEnv / LocalEnv environment resolution of ml2p.core and the     *)
(* ModelPredictor invocation path.                                         *)
(*                                                                         *)
(* Text is modelled as a sequence of symbols.  A symbol is either a single *)
(* character ("-", "1", "/", ...) or a word ("dev", "live", ...) that      *)
(* stands for its run of characters; no symbol is a concatenation of       *)
(* other symbols, so two symbol sequences are equal exactly when the       *)
(* texts they stand for are equal.                                         *)
(*                                                                         *)
(* In the long keys and values of the codec the symbols "a*100", "b*250",  *)
(* ... stand for a run of that many of one letter.                         *)
(*                                                                         *)
(* A Python value that may be None is a tagged record: None, Str(s).       *)
(***************************************************************************)
EXTENDS Integers, Sequences, FiniteSets, TLC

VARIABLES
    name,        \* the resource name handed to the naming functions
    nres,        \* outcome of the last naming call on it
    params,      \* the nested configuration handed to encode
    hyper,       \* outcome of encode(params)
    decoded,     \* outcome of decode on the hyperparameters encode returned
    os_environ,  \* os.environ: the variables of the process and their text
    hp_file,     \* input/config/hyperparameters.json under the ml folder
    cfg_file,    \* the ml2p.yml handed to LocalEnv
    dirs,        \* the local folders that exist
    env,         \* outcome of constructing the environment of the process
    ires,        \* outcome of the last call of the predictor
    puts,        \* the put_object calls the last call of the predictor issued
    s3_objects,  \* the objects stored in S3: (bucket, key) to body
    calls,       \* the calls of the predictor so far
    put_log,     \* the put_object calls of the last call of the predictor, in order
    uuids,       \* the values uuid.uuid4() has handed out so far
    session,     \* the boto session handed to LocalEnv, or None
    local_dirs,  \* the folders made under the ml folder by downloads
    local_files, \* the files under the ml folder: path to content
    requests,    \* the S3 requests of the last download call, in order
    lres,        \* outcome of the last download call
    api_exc,     \* the APIError raised while a request was handled
    response,    \* the response the API gave for it: body and status code
    opt_model_type, \* the --model-type option handed to the command line
    vres,        \* outcome of validate_model_type on it
    job,         \* outcome of mk_training_job: the parameters of the job
    opt_model,   \* the --model option handed to ml2p-docker
    stdout,      \* the lines the command has echoed
    failure,     \* the file output/failure under the ml folder
    cres,        \* outcome of the ml2p-docker command
    pc,          \* where the ml2p-docker process is
    setups,      \* the calls of predictor.setup() so far
    teardowns,   \* the calls of predictor.teardown() so far
    atexit_reg,  \* the callbacks registered with atexit, in order
    server_runs, \* the times the HTTP server was started
    served       \* the requests the HTTP server has answered

nvars == <<name, nres>>
cvars == <<params, hyper, decoded>>
evars == <<os_environ, hp_file, cfg_file, dirs, env>>
pvars == <<ires, puts, s3_objects, calls, put_log, uuids>>
lvars == <<session, local_dirs, local_files, requests, lres>>
avars == <<api_exc, response>>
tvars == <<opt_model_type, vres, job>>
dvars == <<opt_model, stdout, failure, cres, pc, setups, teardowns, atexit_reg,
           server_runs, served>>
xvars == <<lvars, avars, tvars, dvars>>
vars == <<name, nres, params, hyper, decoded, os_environ, hp_file, cfg_file, dirs, env,
          ires, puts, s3_objects, calls, put_log, uuids,
          session, local_dirs, local_files, requests, lres,
          api_exc, response, opt_model_type, vres, job,
          opt_model, stdout, failure, cres, pc, setups, teardowns, atexit_reg,
          server_runs, served>>

----------------------------------------------------------------------------
(* Python values *)

None == [t |-> "none"]
Str(s) == [t |-> "str", v |-> s]

\* the value nothing has been computed into yet
NoCall == [op |-> "none"]

Returned(op, arg, value) == [op |-> op, arg |-> arg, status |-> "returned", value |-> value]
Raised(op, arg, exc, msg) == [op |-> op, arg |-> arg, status |-> "raised", exc |-> exc, msg |-> msg]

Max(a, b) == IF a >= b THEN a ELSE b
Min(a, b) == IF a <= b THEN a ELSE b

EndsWith(s, t) == Len(t) <= Len(s) /\ SubSeq(s, Len(s) - Len(t) + 1, Len(s)) = t
DropLast(s, k) == SubSeq(s, 1, Len(s) - k)

Range(s) == { s[i] : i \in 1..Len(s) }

RECURSIVE Concat(_)
Concat(ss) == IF ss = <<>> THEN <<>> ELSE Head(ss) \o Concat(Tail(ss))

RECURSIVE Join(_, _)
\* sep.join(parts)
Join(sep, parts) ==
    IF parts = <<>> THEN <<>>
    ELSE IF Len(parts) = 1 THEN Head(parts)
    ELSE Head(parts) \o sep \o Join(sep, Tail(parts))

----------------------------------------------------------------------------
(* ml2p.cli_utils: resource names *)

\* the longest list of "-"-separated segments a name is built from
MaxSegs == 4

Digits == {"0", "1", "2", "9"}
\* the symbols matched by [a-zA-Z0-9\-]
NameChars == Digits \cup {"m", "dev", "live", "analysis", "test", "-"}
\* a digit class that lets a letter through
DigitChars_WithLetter == Digits \cup {"m"}
\* [0-9]
DigitChars == Digits

Kinds == {"dataset", "training-job", "model", "endpoint"}

Cls(g, cls, lo, hi) == [k |-> "cls", g |-> g, cls |-> cls, lo |-> lo, hi |-> hi]
Lit(s) == [k |-> "lit", lit |-> s]
Opt(g, alts) == [k |-> "opt", g |-> g, alts |-> alts]
\* an unbounded repetition count
Inf == 1000

VALIDATION_REGEXES ==
    [ r \in Kinds |->
        CASE r = "dataset" ->
               << Cls("model", NameChars, 1, Inf), Lit(<<"-">>),
                  Cls("date", DigitChars, 8, 8) >>
          [] r = "training-job" ->
               << Cls("model", NameChars, 1, Inf), Lit(<<"-">>),
                  Cls("major", DigitChars, 1, Inf), Lit(<<"-">>),
                  Cls("minor", DigitChars, 1, Inf),
                  Opt("training_suffix", << <<"-", "dev">> >>) >>
          [] r = "model" ->
               << Cls("model", NameChars, 1, Inf), Lit(<<"-">>),
                  Cls("major", DigitChars, 1, Inf), Lit(<<"-">>),
                  Cls("minor", DigitChars, 1, Inf), Lit(<<"-">>),
                  Cls("patch", DigitChars, 1, Inf),
                  Opt("model_suffix", << <<"-", "dev">> >>) >>
          [] r = "endpoint" ->
               << Cls("model", NameChars, 1, Inf), Lit(<<"-">>),
                  Cls("major", DigitChars, 1, Inf), Lit(<<"-">>),
                  Cls("minor", DigitChars, 1, Inf), Lit(<<"-">>),
                  Cls("patch", DigitChars, 1, Inf),
                  Opt("model_suffix", << <<"-", "dev">> >>),
                  Opt("endpoint_suffix",
                      << <<"-", "live">>, <<"-", "analysis">>, <<"-", "test">> >>) >> ]

\* the result of a failed re.match
NoMatch == [nomatch |-> TRUE]

\* "$" of Python's re: the end of the text, or just before a newline that
\* ends the text
DollarAt(s, pos) ==
    \/ pos = Len(s) + 1
    \/ pos = Len(s) /\ s[pos] = "\n"

RECURSIVE RunLen(_, _, _)
\* how many symbols of cls follow from pos
RunLen(s, pos, cls) ==
    IF pos <= Len(s) /\ s[pos] \in cls THEN 1 + RunLen(s, pos + 1, cls) ELSE 0

StartsAt(s, pos, lit) ==
    /\ pos + Len(lit) - 1 <= Len(s)
    /\ SubSeq(s, pos, pos + Len(lit) - 1) = lit

RECURSIVE ReMatchFrom(_, _, _, _)
RECURSIVE ReTryCls(_, _, _, _, _)
RECURSIVE ReTryAlt(_, _, _, _, _)

\* the backtracking matcher of re.match for a pattern "^" items "$": the
\* groups of the first match in the matcher's order of preference
ReMatchFrom(items, s, pos, grps) ==
    IF items = <<>>
    THEN IF DollarAt(s, pos) THEN grps ELSE NoMatch
    ELSE LET it == Head(items) IN
         CASE it.k = "cls" ->
                ReTryCls(items, s, pos, grps, Min(RunLen(s, pos, it.cls), it.hi))
           [] it.k = "lit" ->
                IF StartsAt(s, pos, it.lit)
                THEN ReMatchFrom(Tail(items), s, pos + Len(it.lit), grps)
                ELSE NoMatch
           [] it.k = "opt" ->
                ReTryAlt(items, s, pos, grps, 1)

\* a greedy repetition: the longest run first, then shorter ones
ReTryCls(items, s, pos, grps, n) ==
    LET it == Head(items) IN
    IF n < it.lo THEN NoMatch
    ELSE LET m == ReMatchFrom(Tail(items), s, pos + n,
                              (it.g :> Str(SubSeq(s, pos, pos + n - 1))) @@ grps)
         IN IF m # NoMatch THEN m ELSE ReTryCls(items, s, pos, grps, n - 1)

\* an optional group: its alternatives in order, then the empty match, which
\* leaves the group None
ReTryAlt(items, s, pos, grps, i) ==
    LET it == Head(items) IN
    IF i > Len(it.alts)
    THEN ReMatchFrom(Tail(items), s, pos, (it.g :> None) @@ grps)
    ELSE LET m == IF StartsAt(s, pos, it.alts[i])
                  THEN ReMatchFrom(Tail(items), s, pos + Len(it.alts[i]),
                                   (it.g :> Str(it.alts[i])) @@ grps)
                  ELSE NoMatch
         IN IF m # NoMatch THEN m ELSE ReTryAlt(items, s, pos, grps, i + 1)

re_match(items, s) == ReMatchFrom(items, s, 1, <<>>)

message_dict ==
    [ r \in Kinds |->
        CASE r = "dataset" ->
               "Dataset names should be in the format <model-name>-YYYYMMDD"
          [] r = "training-job" ->
               "Training job names should be in the format <model-name>-X-Y-Z-[dev]"
          [] r = "model" ->
               "Model names should be in the format <model-name>-X-Y-Z-[dev]"
          [] r = "endpoint" ->
               "Endpoint names should be in the format <model-name>-X-Y-Z-[dev]-[live|analysis|test]" ]

validate_name(n, resource) ==
    IF re_match(VALIDATION_REGEXES[resource], n) = NoMatch
    THEN Raised("validate_name", resource, "NamingError", message_dict[resource])
    ELSE Returned("validate_name", resource, None)

\* str.format of a group of the match
Fmt(x) == IF x = None THEN <<"None">> ELSE x.v

training_job_name_for_model(model_name) ==
    LET match == re_match(VALIDATION_REGEXES["model"], model_name) IN
    IF match = NoMatch
    THEN Raised("training_job_name_for_model", "model", "NamingError",
                <<"Invalid model name ", model_name>>)
    ELSE Returned("training_job_name_for_model", "model",
                  Fmt(match["model"]) \o <<"-">> \o Fmt(match["major"]) \o <<"-">>
                      \o Fmt(match["minor"]))

\* model_name_for_endpoint that leaves the stage of the endpoint on the name
model_name_for_endpoint_KeepsStage(endpoint_name) ==
    LET match == re_match(VALIDATION_REGEXES["endpoint"], endpoint_name) IN
    IF match = NoMatch
    THEN Raised("model_name_for_endpoint", "endpoint", "NamingError",
                <<"Invalid endpoint name ", endpoint_name>>)
    ELSE Returned("model_name_for_endpoint", "endpoint",
                  Fmt(match["model"]) \o <<"-">> \o Fmt(match["major"]) \o <<"-">>
                      \o Fmt(match["minor"]) \o <<"-">> \o Fmt(match["patch"])
                      \o (IF match["model_suffix"] = None THEN <<>>
                          ELSE match["model_suffix"].v)
                      \o (IF match["endpoint_suffix"] = None THEN <<>>
                          ELSE match["endpoint_suffix"].v))

model_name_for_endpoint(endpoint_name) ==
    LET match == re_match(VALIDATION_REGEXES["endpoint"], endpoint_name) IN
    IF match = NoMatch
    THEN Raised("model_name_for_endpoint", "endpoint", "NamingError",
                <<"Invalid endpoint name ", endpoint_name>>)
    ELSE LET model_suffix == IF match["model_suffix"] = None
                             THEN Str(<<>>) ELSE match["model_suffix"]
         IN Returned("model_name_for_endpoint", "endpoint",
                     Fmt(match["model"]) \o <<"-">> \o Fmt(match["major"]) \o <<"-">>
                         \o Fmt(match["minor"]) \o <<"-">> \o Fmt(match["patch"])
                         \o Fmt(model_suffix))

----------------------------------------------------------------------------
(* ml2p.hyperparameters: the codec between a nested configuration and the  *)
(* flat text-to-text hyperparameters of a training job.                    *)
(*                                                                         *)
(* A configuration value is None, Bool(b), Int(i), Str(s), List(<<..>>) or *)
(* Dict(f), f a function from keys to values.  The JSON text of a value is *)
(* a sequence of symbols: the words "null", "true", "false", digits,       *)
(* punctuation and the symbols of the strings.                             *)

Bool(b) == [t |-> "bool", v |-> b]
Num(i) == [t |-> "int", v |-> i]
List(l) == [t |-> "list", v |-> l]
Dict(f) == [t |-> "dict", v |-> f]
EmptyDict == Dict(<<>>)

\* the number of characters of a symbol
CharLen(sym) ==
    CASE sym \in {"null", "true"} -> 4
      [] sym = "false" -> 5
      [] sym = "ML2P_ENV" -> 8
      [] sym = "ML2P_PROJECT" -> 12
      [] sym = "ML2P_S3_URL" -> 11
      [] sym = "ML2P_MODEL_CLS" -> 14
      [] sym = "s3:" -> 3
      [] sym = "c*50" -> 50
      [] sym \in {"a*100", "b*100"} -> 100
      [] sym \in {"a*250", "b*250"} -> 250
      [] OTHER -> 1

RECURSIVE TextLen(_)
\* len(text)
TextLen(s) == IF s = <<>> THEN 0 ELSE CharLen(Head(s)) + TextLen(Tail(s))

\* the keys of a mapping in a fixed order
RECURSIVE KeyList(_)
KeyList(ks) ==
    IF ks = {} THEN <<>>
    ELSE LET k == CHOOSE x \in ks : \A y \in ks : Len(x) <= Len(y)
         IN <<k>> \o KeyList(ks \ {k})

DigitOf(d) == CASE d = 0 -> "0" [] d = 1 -> "1" [] d = 2 -> "2" [] d = 3 -> "3"
                [] d = 4 -> "4" [] d = 5 -> "5" [] d = 6 -> "6" [] d = 7 -> "7"
                [] d = 8 -> "8" [] d = 9 -> "9"
ValueOfDigit(c) == CHOOSE d \in 0..9 : DigitOf(d) = c
JsonDigits == { DigitOf(d) : d \in 0..9 }

RECURSIVE NatText(_)
NatText(n) == IF n < 10 THEN <<DigitOf(n)>> ELSE NatText(n \div 10) \o <<DigitOf(n % 10)>>
IntText(i) == IF i < 0 THEN <<"-">> \o NatText(0 - i) ELSE NatText(i)

\* a string body written out as it is
JsonEscape_Raw(s) == s

RECURSIVE JsonEscape(_)
\* the body of a JSON string: quotes and backslashes escaped
JsonEscape(s) ==
    IF s = <<>> THEN <<>>
    ELSE (IF Head(s) \in {"\"", "\\"} THEN <<"\\", Head(s)>> ELSE <<Head(s)>>)
         \o JsonEscape(Tail(s))

RECURSIVE json_dumps(_)
json_dumps(x) ==
    CASE x.t = "none" -> <<"null">>
      [] x.t = "bool" -> IF x.v THEN <<"true">> ELSE <<"false">>
      [] x.t = "int" -> IntText(x.v)
      [] x.t = "str" -> <<"\"">> \o JsonEscape(x.v) \o <<"\"">>
      [] x.t = "list" ->
           <<"[">> \o Join(<<",", " ">>, [ i \in 1..Len(x.v) |-> json_dumps(x.v[i]) ])
               \o <<"]">>
      [] x.t = "dict" ->
           LET ks == KeyList(DOMAIN x.v) IN
           <<"{">> \o Join(<<",", " ">>,
                          [ i \in 1..Len(ks) |->
                              json_dumps(Str(ks[i])) \o <<":", " ">> \o json_dumps(x.v[ks[i]]) ])
               \o <<"}">>

\* the outcome of parsing: a value and the position after it, or a failure
Parsed(v, pos) == [ok |-> TRUE, v |-> v, pos |-> pos]
ParseError == [ok |-> FALSE]

RECURSIVE SkipWs(_, _)
SkipWs(s, pos) == IF pos <= Len(s) /\ s[pos] = " " THEN SkipWs(s, pos + 1) ELSE pos

RECURSIVE NatOf(_)
NatOf(ds) == IF ds = <<>> THEN 0 ELSE 10 * NatOf(DropLast(ds, 1)) + ValueOfDigit(ds[Len(ds)])

\* a number: an optional "-", then digits without a superfluous leading zero
ParseNumber(s, pos) ==
    LET neg == pos <= Len(s) /\ s[pos] = "-"
        start == IF neg THEN pos + 1 ELSE pos
        n == RunLen(s, start, JsonDigits)
        ds == SubSeq(s, start, start + n - 1)
    IN IF n = 0 \/ (n > 1 /\ ds[1] = "0") THEN ParseError
       ELSE Parsed(Num(IF neg THEN 0 - NatOf(ds) ELSE NatOf(ds)), start + n)

RECURSIVE ParseStringBody(_, _, _)
\* the symbols of a string up to its closing quote, escapes undone
ParseStringBody(s, pos, acc) ==
    IF pos > Len(s) THEN ParseError
    ELSE IF s[pos] = "\"" THEN Parsed(Str(acc), pos + 1)
    ELSE IF s[pos] = "\\"
         THEN IF pos + 1 <= Len(s) /\ s[pos + 1] \in {"\"", "\\"}
              THEN ParseStringBody(s, pos + 2, Append(acc, s[pos + 1]))
              ELSE ParseError
    ELSE ParseStringBody(s, pos + 1, Append(acc, s[pos]))

RECURSIVE ParseValue(_, _)
RECURSIVE ParseItems(_, _, _)
RECURSIVE ParseMembers(_, _, _)

ParseValue(s, pos0) ==
    LET pos == SkipWs(s, pos0) IN
    IF pos > Len(s) THEN ParseError
    ELSE CASE s[pos] = "null" -> Parsed(None, pos + 1)
           [] s[pos] = "true" -> Parsed(Bool(TRUE), pos + 1)
           [] s[pos] = "false" -> Parsed(Bool(FALSE), pos + 1)
           [] s[pos] = "\"" -> ParseStringBody(s, pos + 1, <<>>)
           [] s[pos] = "[" ->
                LET p == SkipWs(s, pos + 1) IN
                IF p <= Len(s) /\ s[p] = "]" THEN Parsed(List(<<>>), p + 1)
                ELSE ParseItems(s, p, <<>>)
           [] s[pos] = "{" ->
                LET p == SkipWs(s, pos + 1) IN
                IF p <= Len(s) /\ s[p] = "}" THEN Parsed(EmptyDict, p + 1)
                ELSE ParseMembers(s, p, <<>>)
           [] s[pos] \in JsonDigits \cup {"-"} -> ParseNumber(s, pos)
           [] OTHER -> ParseError

\* the items of a list after "[" or ","
ParseItems(s, pos, acc) ==
    LET item == ParseValue(s, pos) IN
    IF ~item.ok THEN ParseError
    ELSE LET p == SkipWs(s, item.pos) IN
         IF p > Len(s) THEN ParseError
         ELSE IF s[p] = "]" THEN Parsed(List(Append(acc, item.v)), p + 1)
         ELSE IF s[p] = "," THEN ParseItems(s, p + 1, Append(acc, item.v))
         ELSE ParseError

\* the members of an object after "{" or ","; a repeated key keeps the last
ParseMembers(s, pos, acc) ==
    LET key == ParseValue(s, pos) IN
    IF ~key.ok \/ key.v.t # "str" THEN ParseError
    ELSE LET c == SkipWs(s, key.pos) IN
         IF c > Len(s) \/ s[c] # ":" THEN ParseError
         ELSE LET item == ParseValue(s, c + 1) IN
              IF ~item.ok THEN ParseError
              ELSE LET p == SkipWs(s, item.pos)
                       acc2 == (key.v.v :> item.v) @@ acc
                   IN IF p > Len(s) THEN ParseError
                      ELSE IF s[p] = "}" THEN Parsed(Dict(acc2), p + 1)
                      ELSE IF s[p] = "," THEN ParseMembers(s, p + 1, acc2)
                      ELSE ParseError

\* json.loads: one value and nothing after it but blanks
json_loads(text) ==
    LET r == ParseValue(text, 1) IN
    IF r.ok /\ SkipWs(text, r.pos) = Len(text) + 1 THEN r ELSE ParseError

\* the limits SageMaker puts on hyperparameters
MAX_KEY_LENGTH == 256
MAX_VALUE_LENGTH == 256
MAX_HYPERPARAMETERS == 100

IsDict(x) == x.t = "dict"

RECURSIVE Visited(_, _)
\* the entries encode walks through: the path of key segments to each value
\* of the mapping d and of the mappings nested in it
Visited(prefix, d) ==
    UNION { { [path |-> Append(prefix, k), val |-> d[k]] }
            \cup (IF IsDict(d[k]) THEN Visited(Append(prefix, k), d[k].v) ELSE {})
          : k \in DOMAIN d }

HasDot(segment) == \E i \in 1..Len(segment) : segment[i] = "."

\* a flat key made of the last segment of the path alone
FlatKey_LastSegment(path) == path[Len(path)]
\* the flat key of a path: its segments joined by "."
FlatKey(path) == Join(<<".">>, path)

\* a check of the key segments that looks at the segments of leaves only
DotChecked_LeavesOnly(visited) == { e \in visited : ~IsDict(e.val) }
\* the entries whose key segment encode checks for a ".": every entry it
\* walks through, sub-mappings included
DotChecked(visited) == visited

RECURSIVE SumLen(_)
SumLen(path) == IF path = <<>> THEN 0 ELSE TextLen(Head(path)) + SumLen(Tail(path))
\* a key length that leaves the separators out
KeyLength_SegmentsOnly(path) == SumLen(path)
\* the length of the dotted key of a path
KeyLength(path) == TextLen(FlatKey(path))

\* a count of the keys of the mapping handed in
EntryCount_TopLevel(x, leaves) == Cardinality(DOMAIN x.v)
\* the number of flat entries of the mapping x with the leaves given
EntryCount(x, leaves) == Cardinality(leaves)

\* encode: one flat entry per leaf, keyed by the dotted path and valued by
\* the JSON text of the leaf
encode(x) ==
    LET visited == Visited(<<>>, x.v)
        leaves == { e \in visited : ~IsDict(e.val) }
        Error(msg) == Raised("encode", "", "HyperParameterEncodingError", msg)
    IN IF \E e \in DotChecked(visited) : HasDot(e.path[Len(e.path)])
       THEN Error("must be a string without dots")
       ELSE IF \E e \in leaves : KeyLength(e.path) > MAX_KEY_LENGTH
       THEN Error("key must be at most 256 characters")
       ELSE IF \E e \in leaves : TextLen(json_dumps(e.val)) > MAX_VALUE_LENGTH
       THEN Error("value must have length at most 256")
       ELSE IF EntryCount(x, leaves) > MAX_HYPERPARAMETERS
       THEN Error("at most 100 hyperparameters")
       ELSE Returned("encode", "",
                     [ key \in { FlatKey(e.path) : e \in leaves } |->
                         json_dumps((CHOOSE e \in leaves : FlatKey(e.path) = key).val) ])

RECURSIVE SplitFrom(_, _, _)
\* text.split(sep) for a one-symbol separator
SplitFrom(s, sep, acc) ==
    IF s = <<>> THEN <<acc>>
    ELSE IF Head(s) = sep THEN <<acc>> \o SplitFrom(Tail(s), sep, <<>>)
    ELSE SplitFrom(Tail(s), sep, Append(acc, Head(s)))
Split(s, sep) == SplitFrom(s, sep, <<>>)

RECURSIVE Nest(_)
\* the mapping of a set of (path, value) pairs: pairs that share the head of
\* their path go into one sub-mapping
Nest(pairs) ==
    [ k \in { Head(p.path) : p \in pairs } |->
        LET sub == { p \in pairs : Head(p.path) = k } IN
        IF \E p \in sub : Len(p.path) = 1
        THEN (CHOOSE p \in sub : Len(p.path) = 1).val
        ELSE Dict(Nest({ [path |-> Tail(p.path), val |-> p.val] : p \in sub })) ]

\* decode: every key split on ".", every value read as JSON, the entries
\* nested again
decode(flat) ==
    IF \E key \in DOMAIN flat : ~json_loads(flat[key]).ok
    THEN Raised("decode", "", "JSONDecodeError", "")
    ELSE Returned("decode", "",
                  Dict(Nest({ [path |-> Split(key, "."), val |-> json_loads(flat[key]).v]
                              : key \in DOMAIN flat })))

----------------------------------------------------------------------------
(* ml2p.core: S3URL, SageMakerEnv, LocalEnv *)

RECURSIVE LStrip(_, _)
\* text.lstrip(c)
LStrip(s, c) == IF s # <<>> /\ Head(s) = c THEN LStrip(Tail(s), c) ELSE s
RECURSIVE RStrip(_, _)
RStrip(s, c) == IF s # <<>> /\ s[Len(s)] = c THEN RStrip(DropLast(s, 1), c) ELSE s
\* text.strip(c)
Strip(s, c) == LStrip(RStrip(s, c), c)

\* urllib.parse.urlparse of a text of the symbols "s3:", "/" and plain
\* ones: the scheme, then after "//" the netloc up to the next "/", then
\* the path
urlparse(url) ==
    LET has_scheme == url # <<>> /\ Head(url) = "s3:"
        rest == IF has_scheme THEN Tail(url) ELSE url
        has_netloc == Len(rest) >= 2 /\ rest[1] = "/" /\ rest[2] = "/"
        after == IF has_netloc THEN SubSeq(rest, 3, Len(rest)) ELSE rest
        n == IF has_netloc THEN RunLen(after, 1, { c \in Range(after) : c # "/" }) ELSE 0
    IN [netloc |-> SubSeq(after, 1, n), path |-> SubSeq(after, n + 1, Len(after))]

\* S3URL.__init__
S3URL(s3folder) ==
    LET s3url == urlparse(s3folder) IN
    [t |-> "S3URL", netloc |-> s3url.netloc, s3root |-> Strip(s3url.path, "/")]

S3URL_bucket(s3) == s3.netloc
\* path that joins the root and the suffix and strips nothing off the front
S3URL_path_Unstripped(s3, suffix) == s3.s3root \o <<"/">> \o LStrip(suffix, "/")
S3URL_path(s3, suffix) == LStrip(s3.s3root \o <<"/">> \o LStrip(suffix, "/"), "/")
S3URL_url(s3, suffix) == <<"s3:", "/", "/">> \o s3.netloc \o <<"/">> \o S3URL_path(s3, suffix)

TYPE_TRAIN == "train"
TYPE_SERVE == "serve"
TYPE_LOCAL == "local"

\* the truth value Python gives a value in "if x:"
Truthy(x) ==
    CASE x.t = "none" -> FALSE
      [] x.t = "bool" -> x.v
      [] x.t = "int" -> x.v # 0
      [] x.t = "str" -> x.v # <<>>
      [] x.t = "list" -> x.v # <<>>
      [] x.t = "dict" -> DOMAIN x.v # {}

\* d.get(k, default) on the mapping f
Get(f, k, default) == IF k \in DOMAIN f THEN f[k] ELSE default

Absent == [exists |-> FALSE]
File(content) == [exists |-> TRUE, content |-> content]

\* hyperparameters that fails when there is no file
hyperparameters_FileRequired(hp) ==
    IF ~hp.exists THEN Raised("hyperparameters", "", "FileNotFoundError", "")
    ELSE decode(hp.content)

\* SageMakerEnv.hyperparameters
hyperparameters(hp) ==
    IF ~hp.exists THEN Returned("hyperparameters", "", EmptyDict)
    ELSE decode(hp.content)

\* SageMakerEnv._train_environ
train_environ(environ, hp) ==
    LET hps == hyperparameters(hp) IN
    IF hps.status = "raised" THEN hps
    ELSE LET ml2p_env == Get(hps.value.v, <<"ML2P_ENV">>, EmptyDict) IN
         IF ~IsDict(ml2p_env)
         THEN Raised("_train_environ", "", "AttributeError", "object has no attribute 'get'")
         ELSE Returned("_train_environ", "",
                  [ env_type |-> TYPE_TRAIN,
                    training_job_name |->
                        IF "TRAINING_JOB_NAME" \in DOMAIN environ
                        THEN Str(environ["TRAINING_JOB_NAME"]) ELSE None,
                    model_version |-> None,
                    record_invokes |-> None,
                    project |-> Get(ml2p_env.v, <<"ML2P_PROJECT">>, None),
                    model_cls |-> Get(ml2p_env.v, <<"ML2P_MODEL_CLS">>, None),
                    s3_url |-> Get(ml2p_env.v, <<"ML2P_S3_URL">>, None) ])

\* a lookup that gives the empty text for a variable that is not there
EnvironGet_EmptyDefault(environ, k, default) ==
    IF k \in DOMAIN environ THEN Str(environ[k]) ELSE Str(<<>>)

\* os.environ.get(k, default)
EnvironGet(environ, k, default) ==
    IF k \in DOMAIN environ THEN Str(environ[k]) ELSE default

\* _serve_environ that takes any non-empty text of ML2P_RECORD_INVOKES for true
serve_environ_AnyText(environ) ==
    Returned("_serve_environ", "",
        [ env_type |-> TYPE_SERVE,
          training_job_name |-> None,
          model_version |-> EnvironGet(environ, "ML2P_MODEL_VERSION", None),
          record_invokes |->
              Bool(Truthy(EnvironGet(environ, "ML2P_RECORD_INVOKES", Str(<<>>)))),
          project |-> EnvironGet(environ, "ML2P_PROJECT", None),
          model_cls |-> EnvironGet(environ, "ML2P_MODEL_CLS", None),
          s3_url |-> EnvironGet(environ, "ML2P_S3_URL", None) ])

\* SageMakerEnv._serve_environ
serve_environ(environ) ==
    Returned("_serve_environ", "",
        [ env_type |-> TYPE_SERVE,
          training_job_name |-> None,
          model_version |-> EnvironGet(environ, "ML2P_MODEL_VERSION", None),
          record_invokes |->
              Bool(EnvironGet(environ, "ML2P_RECORD_INVOKES", Str(<<"false">>))
                       = Str(<<"true">>)),
          project |-> EnvironGet(environ, "ML2P_PROJECT", None),
          model_cls |-> EnvironGet(environ, "ML2P_MODEL_CLS", None),
          s3_url |-> EnvironGet(environ, "ML2P_S3_URL", None) ])

\* the attributes SageMakerEnv.__init__ sets from the environ it is given or
\* has worked out
EnvAttributes(cls, e) ==
    IF Truthy(e.s3_url) /\ e.s3_url.t # "str"
    THEN Raised(cls, "", "AttributeError", "urlparse of a value that is no text")
    ELSE Returned(cls, "",
             [ env_type |-> e.env_type,
               training_job_name |-> e.training_job_name,
               model_version |-> e.model_version,
               record_invokes |-> e.record_invokes,
               project |-> e.project,
               model_cls |-> e.model_cls,
               s3 |-> IF Truthy(e.s3_url) THEN S3URL(e.s3_url.v) ELSE None ])

\* __init__ that takes the hyperparameters file for the sign of a training job
SageMakerEnv_init_ByFile(environ, hp) ==
    LET e == IF hp.exists
             THEN train_environ(environ, hp)
             ELSE serve_environ(environ)
    IN IF e.status = "raised" THEN e ELSE EnvAttributes("SageMakerEnv", e.value)

\* SageMakerEnv.__init__ with environ=None
SageMakerEnv_init(environ, hp) ==
    LET e == IF "TRAINING_JOB_NAME" \in DOMAIN environ
             THEN train_environ(environ, hp)
             ELSE serve_environ(environ)
    IN IF e.status = "raised" THEN e ELSE EnvAttributes("SageMakerEnv", e.value)

StartsWith(s, t) == Len(t) <= Len(s) /\ SubSeq(s, 1, Len(t)) = t

\* the place of a symbol in the order of characters, "/" before the digits
\* and the digits before the letters
SymRank(c) ==
    CASE c = "/" -> 1 [] c = "1" -> 2 [] c = "2" -> 3
      [] c = "datasets" -> 4 [] c = "models" -> 5 [] c = "output" -> 6
      [] c = "model.tar.gz" -> 7 [] OTHER -> 8

RECURSIVE KeyBefore(_, _)
\* the order in which S3 lists keys
KeyBefore(a, b) ==
    IF a = <<>> THEN b # <<>>
    ELSE IF b = <<>> THEN FALSE
    ELSE IF Head(a) = Head(b) THEN KeyBefore(Tail(a), Tail(b))
    ELSE IF SymRank(Head(a)) # SymRank(Head(b)) THEN SymRank(Head(a)) < SymRank(Head(b))
    ELSE Head(a) = CHOOSE c \in {Head(a), Head(b)} : TRUE

RECURSIVE Listed(_)
\* a set of keys as S3 lists them
Listed(keys) ==
    IF keys = {} THEN <<>>
    ELSE LET k == CHOOSE x \in keys : \A y \in keys \ {x} : KeyBefore(x, y)
         IN <<k>> \o Listed(keys \ {k})

\* ModellingSubCfg.__init__: the section and the defaults, each the empty
\* mapping when the configuration has none
ModellingSubCfg(cfg, section, defaults) ==
    [section |-> Get(cfg, section, <<>>), defaults |-> Get(cfg, defaults, <<>>)]

\* ModellingSubCfg.keys: the keys of the section and of the defaults, sorted
ModellingSubCfg_keys(sub) == Listed(DOMAIN sub.section \cup DOMAIN sub.defaults)

\* ModellingSubCfg.__getitem__ and __getattr__
ModellingSubCfg_getitem(sub, k) ==
    IF k \in DOMAIN sub.section THEN Returned("__getitem__", k, sub.section[k])
    ELSE IF k \in DOMAIN sub.defaults THEN Returned("__getitem__", k, sub.defaults[k])
    ELSE Raised("__getitem__", k, "KeyError", k)

\* ModellingSubCfg.get
ModellingSubCfg_get(sub, k, default) ==
    IF k \in DOMAIN sub.section THEN sub.section[k] ELSE Get(sub.defaults, k, default)

\* ModellingProject.__init__
ModellingProject(cfg) ==
    IF ~cfg.exists
    THEN Raised("ModellingProject", "", "FileNotFoundError", "")
    ELSE IF ~({"project", "s3folder"} \subseteq DOMAIN cfg.content)
    THEN Raised("ModellingProject", "", "KeyError", "")
    ELSE Returned("ModellingProject", "",
             [project |-> cfg.content["project"], s3 |-> S3URL(cfg.content["s3folder"]),
              train |-> ModellingSubCfg(cfg.content, "train", "defaults"),
              models |-> ModellingSubCfg(cfg.content, "models", "models")])

\* _local_environ that leaves the model version out
local_environ_NoVersion(prj) ==
    [ env_type |-> TYPE_LOCAL,
      training_job_name |-> None,
      model_version |-> None,
      record_invokes |-> Bool(FALSE),
      project |-> Str(prj.project),
      model_cls |-> None,
      s3_url |-> Str(S3URL_url(prj.s3, <<>>)) ]

\* LocalEnv._local_environ
local_environ(prj) ==
    [ env_type |-> TYPE_LOCAL,
      training_job_name |-> None,
      model_version |-> Str(<<"local">>),
      record_invokes |-> Bool(FALSE),
      project |-> Str(prj.project),
      model_cls |-> None,
      s3_url |-> Str(S3URL_url(prj.s3, <<>>)) ]

ML_FOLDER == "ml"
MODEL_FOLDER == "ml/model"

\* __init__ that makes the model folder, and the folders above it, before it
\* looks for the ml folder
LocalEnv_init_MkdirFirst(cfg, folders) ==
    LET prj == ModellingProject(cfg) IN
    IF prj.status = "raised" THEN [res |-> prj, dirs |-> folders]
    ELSE IF ML_FOLDER \notin folders
    THEN [res |-> Raised("LocalEnv", "", "LocalEnvError",
                         "Local environment folder does not exist."),
          dirs |-> folders \cup {ML_FOLDER, MODEL_FOLDER}]
    ELSE [res |-> EnvAttributes("LocalEnv", local_environ(prj.value)),
          dirs |-> folders \cup {MODEL_FOLDER}]

\* LocalEnv.__init__: the outcome, and the folders that exist afterwards
LocalEnv_init(cfg, folders) ==
    LET prj == ModellingProject(cfg) IN
    IF prj.status = "raised" THEN [res |-> prj, dirs |-> folders]
    ELSE IF ML_FOLDER \notin folders
    THEN [res |-> Raised("LocalEnv", "", "LocalEnvError",
                         "Local environment folder does not exist."),
          dirs |-> folders]
    ELSE [res |-> EnvAttributes("LocalEnv", local_environ(prj.value)),
          dirs |-> folders \cup {MODEL_FOLDER}]

\* ModellingProject.full_job_name
full_job_name(prj, job_name) == prj.project \o <<"-">> \o job_name

\* the Environment of the PrimaryContainer that mk_model hands to SageMaker
\* for a project prj: its name, its S3URL, its deploy section and its models
mk_model_Environment(prj, model_name, model_type) ==
    LET cls_env == IF model_type # None
                   THEN [ML2P_MODEL_CLS |-> prj.models[model_type.v]] ELSE <<>>
        record_env == IF Truthy(Get(prj.deploy, "record_invokes", Bool(FALSE)))
                      THEN [ML2P_RECORD_INVOKES |-> <<"true">>] ELSE <<>>
    IN [ ML2P_MODEL_VERSION |-> full_job_name(prj, model_name),
         ML2P_PROJECT |-> prj.project,
         ML2P_S3_URL |-> S3URL_url(prj.s3, <<>>) ] @@ cls_env @@ record_env

----------------------------------------------------------------------------
(* ml2p.core: LocalEnv.download_dataset, LocalEnv.download_model *)

\* bucket.objects.filter(Prefix=prefix): the keys of the bucket that start
\* with the prefix
objects_filter(store, bucket, prefix) ==
    Listed({ at[2] : at \in { a \in DOMAIN store : a[1] = bucket /\ StartsWith(a[2], prefix) } })

\* the folders above a path, the path a text of segments and "/"
ParentsOf(path) ==
    { SubSeq(path, 1, i - 1) : i \in { j \in 2..Len(path) : path[j] = "/" } }

\* an S3 request
ListObjects(bucket, prefix) == [op |-> "list_objects", Bucket |-> bucket, Prefix |-> prefix]
DownloadFileobj(bucket, key) == [op |-> "download_fileobj", Bucket |-> bucket, Key |-> key]

\* the local folder of the training dataset, dataset_folder(), and the tar
\* file of the model under model_folder()
TRAINING_FOLDER == <<"ml", "/", "input", "/", "data", "/", "training">>
MODEL_TGZ == <<"ml", "/", "model", "/", "model.tar.gz">>

\* the outcome of a download call: what it returned or raised, the folders
\* and files afterwards, and the requests it issued
Downloaded(res, folders, made, files, reqs) ==
    [res |-> res, dirs |-> folders, made |-> made, files |-> files, reqs |-> reqs]

RECURSIVE FetchEach(_, _, _, _, _, _)
\* the loop of download_dataset over the listed keys, from the i-th on
FetchEach(store, bucket, keys, len_prefix, i, acc) ==
    IF i > Len(keys) THEN acc
    ELSE IF EndsWith(keys[i], <<"/">>)
    THEN FetchEach(store, bucket, keys, len_prefix, i + 1, acc)
    ELSE LET rel == LStrip(SubSeq(keys[i], len_prefix + 1, Len(keys[i])), "/")
             local_object == IF rel = <<>> THEN TRAINING_FOLDER
                             ELSE TRAINING_FOLDER \o <<"/">> \o rel
             made == acc.made \cup ParentsOf(local_object)
         IN IF local_object \in made
            THEN Downloaded(Raised("download_dataset", acc.res.arg, "IsADirectoryError", ""),
                            acc.dirs, made, acc.files, acc.reqs)
            ELSE FetchEach(store, bucket, keys, len_prefix, i + 1,
                           Downloaded(acc.res, acc.dirs, made,
                                      (local_object :> store[<<bucket, keys[i]>>]) @@ acc.files,
                                      Append(acc.reqs, DownloadFileobj(bucket, keys[i]))))

\* LocalEnv.download_dataset
download_dataset(e, sess, dataset, store, folders, made, files) ==
    IF sess = None
    THEN Downloaded(Raised("download_dataset", dataset, "LocalEnvError",
                           "Downloading datasets requires a boto session."),
                    folders, made, files, <<>>)
    ELSE LET bucket == S3URL_bucket(e.s3)
             s3_dataset == S3URL_path(e.s3, <<"datasets">>) \o <<"/">> \o dataset
         IN FetchEach(store, bucket, objects_filter(store, bucket, s3_dataset),
                      Len(s3_dataset), 1,
                      Downloaded(Returned("download_dataset", dataset, None), folders,
                                 made \cup ParentsOf(TRAINING_FOLDER) \cup {TRAINING_FOLDER},
                                 files, << ListObjects(bucket, s3_dataset) >>))

\* the members of a tar file, when the text is one
IsTar(body) == body # <<>> /\ Head(body) = "tar:"
Members(body) == { body[i] : i \in 2..Len(body) }

\* download_model that opens the local tar file before it looks for a session
download_model_OpensFirst(e, sess, prj, training_job, store, folders, made, files) ==
    IF sess = None
    THEN Downloaded(Raised("download_model", training_job, "LocalEnvError",
                           "Downloading models requires a boto session."),
                    folders \cup {MODEL_FOLDER}, made, (MODEL_TGZ :> <<>>) @@ files, <<>>)
    ELSE Downloaded(Returned("download_model", training_job, None),
                    folders \cup {MODEL_FOLDER}, made, (MODEL_TGZ :> <<>>) @@ files, <<>>)

\* LocalEnv.download_model
download_model(e, sess, prj, training_job, store, folders, made, files) ==
    IF sess = None
    THEN Downloaded(Raised("download_model", training_job, "LocalEnvError",
                           "Downloading models requires a boto session."),
                    folders, made, files, <<>>)
    ELSE LET bucket == S3URL_bucket(e.s3)
             s3_model_tgz == S3URL_path(e.s3, <<"/", "models">>) \o <<"/">>
                                \o full_job_name(prj, training_job)
                                \o <<"/", "output", "/", "model.tar.gz">>
             at == <<bucket, s3_model_tgz>>
             reqs == << DownloadFileobj(bucket, s3_model_tgz) >>
             made_folders == folders \cup {MODEL_FOLDER}
         IN IF at \notin DOMAIN store
            THEN Downloaded(Raised("download_model", training_job, "ClientError", "404"),
                            made_folders, made, (MODEL_TGZ :> <<>>) @@ files, reqs)
            ELSE IF ~IsTar(store[at])
            THEN Downloaded(Raised("download_model", training_job, "ReadError", ""),
                            made_folders, made, (MODEL_TGZ :> store[at]) @@ files, reqs)
            ELSE Downloaded(Returned("download_model", training_job, None),
                            made_folders, made,
                            [ m \in { <<"ml", "/", "model", "/", x>> : x \in Members(store[at]) }
                                |-> <<"member">> ]
                                @@ (MODEL_TGZ :> store[at]) @@ files,
                            reqs)

----------------------------------------------------------------------------
(* ml2p.cli: validate_model_type; ml2p.cli_utils: mk_training_job *)

\* validate_model_type, ctx.obj the project
validate_model_type(prj, value) ==
    LET model_types == ModellingSubCfg_keys(prj.models) IN
    IF value # None
    THEN IF model_types # <<>> /\ value.v \notin Range(model_types)
         THEN Raised("validate_model_type", value, "BadParameter", "Unknown model type.")
         ELSE Returned("validate_model_type", value, value)
    ELSE IF Len(model_types) = 0 THEN Returned("validate_model_type", value, None)
    ELSE IF Len(model_types) = 1
    THEN Returned("validate_model_type", value, Str(model_types[1]))
    ELSE Raised("validate_model_type", value, "BadParameter",
                "Model type may only be omitted if zero or one models are listed")

IsList(x) == x.t = "list"

\* mk_vpc_config
mk_vpc_config(subcfg) ==
    LET vpc_config == ModellingSubCfg_get(subcfg, "vpc_config", None)
        Error(msg) == Raised("mk_vpc_config", "", "ConfigError", msg)
    IN IF vpc_config = None THEN Returned("mk_vpc_config", "", None)
       ELSE IF \/ ~IsDict(vpc_config)
               \/ ~IsList(Get(vpc_config.v, <<"security_groups">>, None))
               \/ ~IsList(Get(vpc_config.v, <<"subnets">>, None))
       THEN Error("The vpc_config requires a dictionary")
       ELSE IF ~Truthy(vpc_config.v[<<"security_groups">>])
       THEN Error("The vpc_config must contain at least one security group id.")
       ELSE IF ~Truthy(vpc_config.v[<<"subnets">>])
       THEN Error("The vpc_config must contain at least one subnet id.")
       ELSE Returned("mk_vpc_config", "",
                Dict((<<"SecurityGroupIds">> :> vpc_config.v[<<"security_groups">>])
                     @@ (<<"Subnets">> :> vpc_config.v[<<"subnets">>])))

\* the mapping mk_training_job hands to encode
ML2P_ENV(prj, extra_env) ==
    Dict(<<"ML2P_ENV">> :>
           Dict(extra_env @@ (<<"ML2P_PROJECT">> :> Str(prj.project))
                          @@ (<<"ML2P_S3_URL">> :> Str(S3URL_url(prj.s3, <<>>)))))

\* mk_training_job that names the model type where the class belongs
mk_training_job_TypeForClass(prj, training_job, dataset, model_type) ==
    LET cls == IF model_type # None
               THEN ModellingSubCfg_getitem(prj.models, model_type.v) ELSE NoCall
        extra_env == IF model_type # None /\ cls.status = "returned"
                     THEN (<<"ML2P_MODEL_CLS">> :> model_type) ELSE <<>>
        vpc_config == mk_vpc_config(prj.train)
        attr(k) == ModellingSubCfg_getitem(prj.train, k)
        hp == encode(ML2P_ENV(prj, extra_env))
        Error(exc, msg) == Raised("mk_training_job", training_job, exc, msg)
    IN IF model_type # None /\ cls.status = "raised" THEN Error("KeyError", "")
       ELSE IF vpc_config.status = "raised" THEN Error(vpc_config.exc, vpc_config.msg)
       ELSE IF attr("image").status = "raised" THEN Error("KeyError", "image")
       ELSE IF hp.status = "raised" THEN Error(hp.exc, hp.msg)
       ELSE IF attr("instance_type").status = "raised" THEN Error("KeyError", "instance_type")
       ELSE IF attr("role").status = "raised" THEN Error("KeyError", "role")
       ELSE Returned("mk_training_job", training_job,
                [ TrainingJobName |-> full_job_name(prj, training_job),
                  TrainingImage |-> attr("image").value,
                  HyperParameters |-> hp.value,
                  S3Uri |-> S3URL_url(prj.s3, <<"/", "datasets", "/">> \o dataset),
                  S3OutputPath |-> S3URL_url(prj.s3, <<"/", "models", "/">>),
                  InstanceType |-> attr("instance_type").value,
                  RoleArn |-> attr("role").value,
                  VpcConfig |-> vpc_config.value ])

\* mk_training_job: the parameters of the training job, or the error raised
mk_training_job(prj, training_job, dataset, model_type) ==
    LET cls == IF model_type # None
               THEN ModellingSubCfg_getitem(prj.models, model_type.v) ELSE NoCall
        extra_env == IF model_type # None /\ cls.status = "returned"
                     THEN (<<"ML2P_MODEL_CLS">> :> cls.value) ELSE <<>>
        vpc_config == mk_vpc_config(prj.train)
        attr(k) == ModellingSubCfg_getitem(prj.train, k)
        hp == encode(ML2P_ENV(prj, extra_env))
        Error(exc, msg) == Raised("mk_training_job", training_job, exc, msg)
    IN IF model_type # None /\ cls.status = "raised" THEN Error("KeyError", "")
       ELSE IF vpc_config.status = "raised" THEN Error(vpc_config.exc, vpc_config.msg)
       ELSE IF attr("image").status = "raised" THEN Error("KeyError", "image")
       ELSE IF hp.status = "raised" THEN Error(hp.exc, hp.msg)
       ELSE IF attr("instance_type").status = "raised" THEN Error("KeyError", "instance_type")
       ELSE IF attr("role").status = "raised" THEN Error("KeyError", "role")
       ELSE Returned("mk_training_job", training_job,
                [ TrainingJobName |-> full_job_name(prj, training_job),
                  TrainingImage |-> attr("image").value,
                  HyperParameters |-> hp.value,
                  S3Uri |-> S3URL_url(prj.s3, <<"/", "datasets", "/">> \o dataset),
                  S3OutputPath |-> S3URL_url(prj.s3, <<"/", "models", "/">>),
                  InstanceType |-> attr("instance_type").value,
                  RoleArn |-> attr("role").value,
                  VpcConfig |-> vpc_config.value ])

----------------------------------------------------------------------------
(* ml2p.errors: APIError; ml2p.docker: ML2PAPI.handle_user_exception *)

APIErrors == { "APIError", "ServerError", "ClientError" }
\* exceptions of werkzeug that are no APIError
HTTPExceptions == { "NotFound", "BadRequest" }

\* the attribute code of the class of an exception
ClassCode(cls) ==
    CASE cls = "APIError" -> 500
      [] cls = "ServerError" -> 500
      [] cls = "ClientError" -> 400
      [] cls = "NotFound" -> 404
      [] cls = "BadRequest" -> 400

\* APIError.__init__ that takes a status code only when it is truthy
APIError_init_TruthyStatus(cls, message, details, status_code) ==
    [ cls |-> cls,
      description |-> message,
      details |-> IF details = None THEN List(<<>>)
                  ELSE IF details.t = "str" THEN List(<<details>>)
                  ELSE details,
      code |-> IF Truthy(status_code) THEN status_code ELSE Num(ClassCode(cls)),
      message |-> message ]

\* APIError.__init__: the attributes of the exception
APIError_init(cls, message, details, status_code) ==
    [ cls |-> cls,
      description |-> message,
      details |-> IF details = None THEN List(<<>>)
                  ELSE IF details.t = "str" THEN List(<<details>>)
                  ELSE details,
      code |-> IF status_code # None THEN status_code ELSE Num(ClassCode(cls)),
      message |-> message ]

\* an exception of werkzeug, or any other: its class and its description
OtherException(cls, description) ==
    IF cls \in HTTPExceptions
    THEN [cls |-> cls, description |-> description, code |-> Num(ClassCode(cls))]
    ELSE [cls |-> cls, description |-> description]

\* the response of a view: the mapping jsonify turns into the body, and the
\* status code
Response(body, status) == [body |-> body, status |-> status]

\* ML2PAPI.handle_user_exception
handle_user_exception(exc) ==
    IF exc.cls \in APIErrors
    THEN Returned("handle_user_exception", exc.cls,
             Response(Dict((<<"message">> :> exc.message) @@ (<<"details">> :> exc.details)),
                      exc.code))
    ELSE IF exc.cls \in HTTPExceptions
    THEN Returned("handle_user_exception", exc.cls,
             Response(Dict(<<"message">> :> exc.description), exc.code))
    ELSE Raised("handle_user_exception", exc.cls, exc.cls, exc.description)

----------------------------------------------------------------------------
(* ml2p.docker: the commands train and serve of ml2p-docker *)

OUTPUT_FOLDER == "ml/output"

\* the modules that can be imported in the container, and their classes
Modules == [ pkg |-> {"A"} ]

\* the place of the last "." of a text, 0 when it has none
RECURSIVE LastDot(_)
LastDot(s) == IF s = <<>> \/ s[Len(s)] = "." THEN Len(s) ELSE LastDot(DropLast(s, 1))

\* import_string: the class of the name, a text of segments and "."
import_string(nm) ==
    LET dot == LastDot(nm)
        modname == SubSeq(nm, 1, dot - 1)
        classname == SubSeq(nm, dot + 1, Len(nm))
    IN IF modname = <<>>
       THEN Raised("import_string", nm, "ValueError", "Empty module name")
       ELSE IF Len(modname) # 1 \/ modname[1] \notin DOMAIN Modules
       THEN Raised("import_string", nm, "ModuleNotFoundError", "")
       ELSE IF Len(classname) # 1 \/ classname[1] \notin Modules[modname[1]]
       THEN Raised("import_string", nm, "AttributeError", "")
       ELSE Returned("import_string", nm, Str(nm))

\* the group ml2p_docker, after it has constructed the environment e: the
\* model of ML2POptions, from --model or else from the model class of e
ml2p_docker(opt, e) ==
    LET model == IF opt = None THEN e.model_cls ELSE opt IN
    IF model = None THEN Returned("ml2p_docker", opt, None)
    ELSE IF model.t # "str" THEN Raised("ml2p_docker", opt, "AttributeError", "rpartition")
    ELSE import_string(model.v)

\* the classes caught by "except Exception"
IsException(exc) == exc \notin { "KeyboardInterrupt", "SystemExit" }

\* the outcome of a command: what it returned or raised, what it has echoed,
\* and the failure file afterwards
Ran(res, out, fail) == [res |-> res, stdout |-> out, failure |-> fail]

\* SageMakerEnv.write_failure: open(..., "w") of output/failure, then the text
write_failure(folders, text) ==
    IF OUTPUT_FOLDER \in folders
    THEN Returned("write_failure", text, File(text))
    ELSE Raised("write_failure", text, "FileNotFoundError", "output/failure")

\* train that makes the output folder before it writes the failure file
train_MakesOutputFolder(opt, e, behaviour, folders, out, fail) ==
    IF opt.status = "raised" THEN Ran([opt EXCEPT !.arg = behaviour], out, fail)
    ELSE IF opt.value = None
    THEN Ran(Raised("train", behaviour, "UsageError",
                    "The global parameter --model must either be given"), out, fail)
    ELSE LET started == Append(out, <<"Starting training job ">>
                                       \o Fmt(e.training_job_name) \o <<".">>)
         IN IF behaviour.at \in { "trainer", "train" }
            THEN IF IsException(behaviour.exc)
                 THEN Ran(Raised("train", behaviour, behaviour.exc, ""), started,
                          File(<<"Traceback", behaviour.at, behaviour.exc>>))
                 ELSE Ran(Raised("train", behaviour, behaviour.exc, ""), started, fail)
            ELSE Ran(Returned("train", behaviour, None), Append(started, <<"Done.">>), fail)

\* the command train, opt the outcome of the group and behaviour what the
\* model does: where it raises, if anywhere, and what
train(opt, e, behaviour, folders, out, fail) ==
    IF opt.status = "raised" THEN Ran([opt EXCEPT !.arg = behaviour], out, fail)
    ELSE IF opt.value = None
    THEN Ran(Raised("train", behaviour, "UsageError",
                    "The global parameter --model must either be given"), out, fail)
    ELSE LET started == Append(out, <<"Starting training job ">>
                                       \o Fmt(e.training_job_name) \o <<".">>)
         IN IF behaviour.at \in { "trainer", "train" }
            THEN IF IsException(behaviour.exc)
                 THEN LET w == write_failure(folders,
                                             <<"Traceback", behaviour.at, behaviour.exc>>)
                      IN IF w.status = "raised"
                         THEN Ran(Raised("train", behaviour, w.exc, w.msg), started, fail)
                         ELSE Ran(Raised("train", behaviour, behaviour.exc, ""), started,
                                  w.value)
                 ELSE Ran(Raised("train", behaviour, behaviour.exc, ""), started, fail)
            ELSE Ran(Returned("train", behaviour, None), Append(started, <<"Done.">>), fail)

\* the outcome of serve up to app.run: what it raised, if anything, what it
\* has echoed, the calls of setup() and the callbacks registered with atexit
Serving(res, out, setup_calls, registered) ==
    [res |-> res, stdout |-> out, setups |-> setup_calls, atexit |-> registered]

\* serve that runs the server with a predictor it has not set up
serve_RunsWithoutSetup(opt, e, behaviour, out, setup_calls, registered) ==
    IF opt.status = "raised"
    THEN Serving([opt EXCEPT !.arg = behaviour], out, setup_calls, registered)
    ELSE IF opt.value = None
    THEN Serving(Raised("serve", behaviour, "UsageError",
                        "The global parameter --model must either be given"),
                 out, setup_calls, registered)
    ELSE LET started == Append(out, <<"Starting server for model version ">>
                                       \o Fmt(e.model_version) \o <<".">>)
         IN IF behaviour.at = "predictor"
            THEN Serving(Raised("serve", behaviour, behaviour.exc, ""), started,
                         setup_calls, registered)
            ELSE Serving(NoCall, started, setup_calls, Append(registered, "teardown"))

\* the command serve up to app.run, opt the outcome of the group and
\* behaviour what the model does; the outcome NoCall stands for the command
\* that has reached app.run
serve(opt, e, behaviour, out, setup_calls, registered) ==
    IF opt.status = "raised"
    THEN Serving([opt EXCEPT !.arg = behaviour], out, setup_calls, registered)
    ELSE IF opt.value = None
    THEN Serving(Raised("serve", behaviour, "UsageError",
                        "The global parameter --model must either be given"),
                 out, setup_calls, registered)
    ELSE LET started == Append(out, <<"Starting server for model version ">>
                                       \o Fmt(e.model_version) \o <<".">>)
         IN IF behaviour.at = "predictor"
            THEN Serving(Raised("serve", behaviour, behaviour.exc, ""), started,
                         setup_calls, registered)
            ELSE IF behaviour.at = "setup"
            THEN Serving(Raised("serve", behaviour, behaviour.exc, ""), started,
                         setup_calls + 1, registered)
            ELSE Serving(NoCall, started, setup_calls + 1, Append(registered, "teardown"))

----------------------------------------------------------------------------
(* ml2p.core: ModelPredictor *)

ml2p_version == Str(<<"0.2.3">>)

\* ModelPredictor.metadata at time t
metadata(e, t) ==
    Dict((<<"model_version">> :> e.model_version)
         @@ (<<"ml2p_version">> :> ml2p_version)
         @@ (<<"timestamp">> :> Num(t)))

\* the result(data) of a predictor class that implements it
result(data) == Dict(<<"probability">> :> Get(data.v, <<"input">>, None))

\* datetime.isoformat of time t
isoformat(t) == <<"T", DigitOf(t)>>

\* the values uuid.uuid4() hands out, in the order it hands them out
UUIDs == << "u1", "u2", "u3", "u4", "u5", "u6", "u7", "u8" >>

\* a generator that hands out one value over and over
uuid4_Repeating(n) == UUIDs[1]

\* uuid.uuid4() after n values were handed out: a value not handed out before
uuid4(n) == UUIDs[n + 1]

\* an identifier made of the timestamp alone
record_invoke_id_TsOnly(t, u) == << <<"ts", isoformat(t)>> >>

\* ModelPredictor.record_invoke_id at time t with uuid4() = u
record_invoke_id(t, u) == << <<"ts", isoformat(t)>>, <<"uuid", <<u>> >> >>

\* a put_object call and whether S3 accepted it
PutObject(bucket, key, body, ok) == [Bucket |-> bucket, Key |-> key, Body |-> body, ok |-> ok]

\* the outcome of a call, the put_object calls it issued, and the store
\* afterwards
Outcome(res, log, store) == [res |-> res, puts |-> Len(log), log |-> log, store |-> store]

\* record_invoke that returns as usual when S3 refuses the object
record_invoke_SwallowsRefusal(e, datum, prediction, t, u, put_ok, store) ==
    LET invoke_id == record_invoke_id(t, u)
        record_filename ==
            Join(<<"--">>, [ i \in 1..Len(invoke_id) |->
                                <<invoke_id[i][1], "-">> \o invoke_id[i][2] ])
                \o <<".json">>
        record == Dict((<<"input">> :> datum) @@ (<<"result">> :> prediction))
        record_bytes == json_dumps(record)
    IN IF e.s3 = None
       THEN Outcome(Raised("record_invoke", datum, "AttributeError",
                           "'NoneType' object has no attribute 'path'"), <<>>, store)
       ELSE LET s3_key == S3URL_path(e.s3, <<"/", "predictions", "/">>
                              \o Fmt(e.model_version) \o <<"/">> \o record_filename)
                at == <<S3URL_bucket(e.s3), s3_key>>
            IN IF put_ok
               THEN Outcome(Returned("record_invoke", datum, None),
                            << PutObject(at[1], at[2], record_bytes, TRUE) >>,
                            (at :> record_bytes) @@ store)
               ELSE Outcome(Returned("record_invoke", datum, None),
                            << PutObject(at[1], at[2], record_bytes, FALSE) >>, store)

\* record_invoke that writes nothing and returns when there is no storage root
record_invoke_NoRootNoRecord(e, datum, prediction, t, u, put_ok, store) ==
    IF e.s3 = None
    THEN Outcome(Returned("record_invoke", datum, None), <<>>, store)
    ELSE record_invoke_SwallowsRefusal(e, datum, prediction, t, u, TRUE, store)

\* ModelPredictor.record_invoke at time t with uuid4() = u; put_ok tells
\* whether S3 accepts the object
record_invoke(e, datum, prediction, t, u, put_ok, store) ==
    LET invoke_id == record_invoke_id(t, u)
        record_filename ==
            Join(<<"--">>, [ i \in 1..Len(invoke_id) |->
                                <<invoke_id[i][1], "-">> \o invoke_id[i][2] ])
                \o <<".json">>
        record == Dict((<<"input">> :> datum) @@ (<<"result">> :> prediction))
        record_bytes == json_dumps(record)
    IN IF e.s3 = None
       THEN Outcome(Raised("record_invoke", datum, "AttributeError",
                           "'NoneType' object has no attribute 'path'"), <<>>, store)
       ELSE LET s3_key == S3URL_path(e.s3, <<"/", "predictions", "/">>
                              \o Fmt(e.model_version) \o <<"/">> \o record_filename)
                at == <<S3URL_bucket(e.s3), s3_key>>
            IN IF put_ok
               THEN Outcome(Returned("record_invoke", datum, None),
                            << PutObject(at[1], at[2], record_bytes, TRUE) >>,
                            (at :> record_bytes) @@ store)
               ELSE Outcome(Raised("record_invoke", datum, "ClientError", "put_object"),
                            << PutObject(at[1], at[2], record_bytes, FALSE) >>, store)

\* invoke that records whenever the environment has a storage root
invoke_RecordsWithRoot(e, data, t1, result_ok, t2, u, put_ok, store) ==
    IF ~result_ok
    THEN Outcome(Raised("invoke", data, "NotImplementedError",
                        "Sub-classes should implement .result(...)"), <<>>, store)
    ELSE LET prediction ==
                 Dict((<<"metadata">> :> metadata(e, t1)) @@ (<<"result">> :> result(data)))
         IN IF e.s3 # None
            THEN LET r == record_invoke(e, data, prediction, t2, u, put_ok, store) IN
                 IF r.res.status = "raised"
                 THEN Outcome([r.res EXCEPT !.op = "invoke"], r.log, r.store)
                 ELSE Outcome(Returned("invoke", data, prediction), r.log, r.store)
            ELSE Outcome(Returned("invoke", data, prediction), <<>>, store)

\* ModelPredictor.invoke: metadata() at time t1, result(data) raising unless
\* result_ok, the record written at time t2
invoke(e, data, t1, result_ok, t2, u, put_ok, store) ==
    IF ~result_ok
    THEN Outcome(Raised("invoke", data, "NotImplementedError",
                        "Sub-classes should implement .result(...)"), <<>>, store)
    ELSE LET prediction ==
                 Dict((<<"metadata">> :> metadata(e, t1)) @@ (<<"result">> :> result(data)))
         IN IF Truthy(e.record_invokes)
            THEN LET r == record_invoke(e, data, prediction, t2, u, put_ok, store) IN
                 IF r.res.status = "raised"
                 THEN Outcome([r.res EXCEPT !.op = "invoke"], r.log, r.store)
                 ELSE Outcome(Returned("invoke", data, prediction), r.log, r.store)
            ELSE Outcome(Returned("invoke", data, prediction), <<>>, store)

RECURSIVE RecordEach(_, _, _, _, _, _, _, _)
\* the loop of batch_invoke over zip(data, predictions), from the i-th pair
\* on: record i is written at time t2s[i] under uuid us[i], S3 refuses the
\* put_bad-th put_object (none when put_bad = 0), and the first record_invoke
\* that raises ends the loop
RecordEach(e, data, predictions, i, t2s, us, put_bad, acc) ==
    IF i > Min(Len(data), Len(predictions)) THEN acc
    ELSE LET r == record_invoke(e, data[i], predictions[i], t2s[i], us[i],
                                i # put_bad, acc.store)
         IN IF r.res.status = "raised"
            THEN Outcome(r.res, acc.log \o r.log, r.store)
            ELSE RecordEach(e, data, predictions, i + 1, t2s, us, put_bad,
                            Outcome(r.res, acc.log \o r.log, r.store))

\* batch_invoke that computes and records one result after the other
batch_invoke_WritesAsItGoes(e, data, t1, result_bad, t2s, us, put_bad, store) ==
    LET meta == metadata(e, t1)
        n == IF result_bad \in 1..Len(data) THEN result_bad - 1 ELSE Len(data)
        predictions == [ i \in 1..n |->
                           Dict((<<"metadata">> :> meta) @@ (<<"result">> :> result(data[i]))) ]
        r == IF Truthy(e.record_invokes)
             THEN RecordEach(e, SubSeq(data, 1, n), predictions, 1, t2s, us, put_bad,
                             Outcome(Returned("record_invoke", data, None), <<>>, store))
             ELSE Outcome(Returned("record_invoke", data, None), <<>>, store)
    IN IF r.res.status = "raised"
       THEN Outcome([r.res EXCEPT !.op = "batch_invoke", !.arg = data], r.log, r.store)
       ELSE IF n < Len(data)
       THEN Outcome(Raised("batch_invoke", data, "NotImplementedError",
                           "Sub-classes should implement .result(...)"), r.log, r.store)
       ELSE Outcome(Returned("batch_invoke", data,
                             Dict(<<"predictions">> :> List(predictions))), r.log, r.store)

RECURSIVE RecordEach_GoesOn(_, _, _, _, _, _, _, _)
\* the loop that goes on to the records that follow one S3 refused and raises
\* once it is through
RecordEach_GoesOn(e, data, predictions, i, t2s, us, put_bad, acc) ==
    IF i > Min(Len(data), Len(predictions)) THEN acc
    ELSE LET r == record_invoke(e, data[i], predictions[i], t2s[i], us[i],
                                i # put_bad, acc.store)
             res == IF acc.res.status = "raised" THEN acc.res ELSE r.res
         IN RecordEach_GoesOn(e, data, predictions, i + 1, t2s, us, put_bad,
                              Outcome(res, acc.log \o r.log, r.store))

\* batch_invoke that attempts the write of every record before it raises
batch_invoke_RecordsAll(e, data, t1, result_bad, t2s, us, put_bad, store) ==
    IF result_bad \in 1..Len(data)
    THEN Outcome(Raised("batch_invoke", data, "NotImplementedError",
                        "Sub-classes should implement .result(...)"), <<>>, store)
    ELSE LET meta == metadata(e, t1)
             predictions == [ i \in 1..Len(data) |->
                                Dict((<<"metadata">> :> meta)
                                     @@ (<<"result">> :> result(data[i]))) ]
             returned == Returned("batch_invoke", data,
                                  Dict(<<"predictions">> :> List(predictions)))
         IN IF Truthy(e.record_invokes)
            THEN LET r == RecordEach_GoesOn(e, data, predictions, 1, t2s, us, put_bad,
                                            Outcome(returned, <<>>, store))
                 IN IF r.res.status = "raised"
                    THEN Outcome([r.res EXCEPT !.op = "batch_invoke", !.arg = data],
                                 r.log, r.store)
                    ELSE Outcome(returned, r.log, r.store)
            ELSE Outcome(returned, <<>>, store)

\* ModelPredictor.batch_invoke with the batch_result of the class: metadata()
\* at time t1, result(datum) raising for the result_bad-th datum (for none
\* when result_bad = 0), then the records written in the order of the batch
batch_invoke(e, data, t1, result_bad, t2s, us, put_bad, store) ==
    IF result_bad \in 1..Len(data)
    THEN Outcome(Raised("batch_invoke", data, "NotImplementedError",
                        "Sub-classes should implement .result(...)"), <<>>, store)
    ELSE LET meta == metadata(e, t1)
             results == [ i \in 1..Len(data) |-> result(data[i]) ]
             predictions == [ i \in 1..Len(results) |->
                                Dict((<<"metadata">> :> meta) @@ (<<"result">> :> results[i])) ]
             returned == Returned("batch_invoke", data,
                                  Dict(<<"predictions">> :> List(predictions)))
         IN IF Truthy(e.record_invokes)
            THEN LET r == RecordEach(e, data, predictions, 1, t2s, us, put_bad,
                                     Outcome(returned, <<>>, store))
                 IN IF r.res.status = "raised"
                    THEN Outcome([r.res EXCEPT !.op = "batch_invoke", !.arg = data],
                                 r.log, r.store)
                    ELSE Outcome(returned, r.log, r.store)
            ELSE Outcome(returned, <<>>, store)

----------------------------------------------------------------------------
(* the names explored *)

\* the "-"-separated segments a name is built from
Segs == { <<"m">>, <<"1">>, <<"1", "2">>, <<" ">> }

RECURSIVE SegLists(_)
SegLists(n) ==
    IF n = 0 THEN { <<>> }
    ELSE SegLists(n - 1)
         \cup { l \o <<g>> : l \in { x \in SegLists(n - 1) : Len(x) = n - 1 }, g \in Segs }

Suffixes ==
    { <<>>, <<"-", "dev">>, <<"-", "live">>, <<"-", "analysis">>, <<"-", "test">>,
      <<"-", "dev", "-", "live">>, <<"-", "dev", "-", "test">>,
      <<"-", "live", "-", "dev">>, <<"-", "dev", "-", "dev">>,
      <<"-", "live", "-", "test">>, <<"dev">> }

\* dates: runs of 7, 8 and 9 digits
Rep(c, n) == [ i \in 1..n |-> c ]
DateLike == { Rep("1", 7), Rep("1", 8), <<"2", "0", "1", "9", "1", "0", "1", "1">>,
              Rep("1", 9) }

Endings == { <<>>, <<"\n">> }

VersionNames ==
    { Join(<<"-">>, l) \o sfx : l \in SegLists(MaxSegs) \ { <<>> }, sfx \in Suffixes }

DateNames ==
    { Join(<<"-">>, l \o <<d>>) : l \in SegLists(2), d \in DateLike }

Names == { n \o e : n \in VersionNames \cup DateNames, e \in Endings }

----------------------------------------------------------------------------
(* the naming functions applied to a name *)

\* the parts of the state a specification leaves alone
NamesIdle == name = <<>> /\ nres = NoCall
CodecIdle == params = EmptyDict /\ hyper = NoCall /\ decoded = NoCall
EnvIdle ==
    /\ os_environ = <<>> /\ hp_file = Absent /\ cfg_file = Absent
    /\ dirs = {} /\ env = NoCall
LocalIdle ==
    /\ session = None /\ local_dirs = {} /\ local_files = <<>>
    /\ requests = <<>> /\ lres = NoCall
ApiIdle == api_exc = NoCall /\ response = NoCall
CliIdle == opt_model_type = None /\ vres = NoCall /\ job = NoCall
DockerIdle ==
    /\ opt_model = None /\ stdout = <<>> /\ failure = Absent /\ cres = NoCall
    /\ pc = "idle" /\ setups = 0 /\ teardowns = 0 /\ atexit_reg = <<>>
    /\ server_runs = 0 /\ served = 0
ExtraIdle == LocalIdle /\ ApiIdle /\ CliIdle /\ DockerIdle
PredictorIdle ==
    /\ ires = NoCall /\ puts = 0 /\ s3_objects = <<>> /\ calls = 0
    /\ put_log = <<>> /\ uuids = 0

NamesInit ==
    /\ name \in Names
    /\ nres = NoCall
    /\ CodecIdle /\ EnvIdle /\ PredictorIdle /\ ExtraIdle

ValidateName(resource) ==
    /\ nres = NoCall
    /\ nres' = validate_name(name, resource)
    /\ UNCHANGED <<name, cvars, evars, pvars, xvars>>

TrainingJobNameForModel ==
    /\ nres = NoCall
    /\ nres' = training_job_name_for_model(name)
    /\ UNCHANGED <<name, cvars, evars, pvars, xvars>>

ModelNameForEndpoint ==
    /\ nres = NoCall
    /\ nres' = model_name_for_endpoint(name)
    /\ UNCHANGED <<name, cvars, evars, pvars, xvars>>

NamesNext ==
    \/ \E resource \in Kinds : ValidateName(resource)
    \/ TrainingJobNameForModel
    \/ ModelNameForEndpoint

SpecNames == NamesInit /\ [][NamesNext]_vars

----------------------------------------------------------------------------
(* the configurations explored, and the codec applied to them *)

\* the deepest nesting of the mappings built over PlainKeys
MaxDepth == 2

PlainKeys == { <<"a">>, <<"b">> }
PlainLeaves == { Num(1), Str(<<"a">>) }

DictsOver(keys, vals) == { Dict(f) : f \in UNION { [S -> vals] : S \in SUBSET keys } }

RECURSIVE Nested(_)
\* the mappings over PlainKeys nested d deep, empty mappings among them
Nested(d) ==
    IF d = 0 THEN { EmptyDict }
    ELSE DictsOver(PlainKeys, PlainLeaves \cup Nested(d - 1))

JsonLeaves ==
    { None, Bool(TRUE), Bool(FALSE), Num(0), Num(12), Num(-3),
      Str(<<>>), Str(<<"a", ".", "b">>), Str(<<"a", "\"", " ", "\\">>),
      Str(<<"null">>), Str(<<"[", "1", "]">>),
      List(<<>>), List(<<Num(1), Num(2), Num(3)>>),
      List(<<Str(<<"a">>), None, List(<<Bool(TRUE)>>)>>),
      List(<<Dict(<<"a">> :> Num(1))>>),
      List(<<Dict((<<"a", ".", "b">> :> Num(1)) @@ (<<"b">> :> EmptyDict))>>) }

OddKeys == { <<>>, <<"a">>, <<"a", ".", "b">>, <<".">>, <<"a", " ", "b">>, <<"ML2P_ENV">> }

\* one entry with a key and a leaf out of the ordinary, at the top or one
\* mapping down
SingleEntry ==
    { Dict(k :> x) : k \in OddKeys, x \in JsonLeaves }
    \cup { Dict(<<"a">> :> Dict(k :> x)) : k \in OddKeys, x \in JsonLeaves }
    \cup { Dict(k :> Dict(<<"a">> :> x)) : k \in OddKeys, x \in {Num(1)} }

\* the mapping of the keys "0", "1", ... "n-1", each to its number
Flat(n) == Dict([ k \in { NatText(i) : i \in 0..(n - 1) } |-> Num(NatOf(k)) ])

\* mappings of 99 to 101 leaves, at the top, one mapping down, and spread
\* over the two
Wide ==
    { Flat(n) : n \in 99..101 }
    \cup { Dict(<<"a">> :> Flat(n)) : n \in 99..101 }
    \cup { Dict((<<"a">> :> Flat(50)) @@ (<<"b">> :> Flat(n))) : n \in 49..51 }
    \cup { Dict((<<"a">> :> Flat(n)) @@ (<<"b">> :> Num(1))) : n \in 98..100 }

\* keys of 255 to 258 characters, in one segment, in three and in two
LongKeys ==
    { Dict((<<"a*250">> \o Rep("a", n)) :> Num(5)) : n \in 5..8 }
    \cup { Dict(<<"a*100">> :> Dict(<<"b*100">> :> Dict((<<"c*50">> \o Rep("c", n)) :> Num(5))))
           : n \in 3..6 }
    \cup { Dict((<<"a*250">> \o Rep("a", n)) :> Dict(<<"b">> :> Num(5))) : n \in 3..6 }

\* values whose JSON text has 255 to 258 characters: plain strings, strings
\* with characters that are escaped, lists
LongValues ==
    { Dict(<<"a">> :> Str(<<"b*250">> \o Rep("b", n))) : n \in 3..6 }
    \cup { Dict(<<"a">> :> Dict(<<"b">> :> Str(<<"b*250">> \o Rep("\"", n)))) : n \in 1..3 }
    \cup { Dict(<<"a">> :> List(<< Str(<<"b*250">> \o Rep("b", n)) >>)) : n \in 1..4 }

Configs == Nested(MaxDepth) \cup SingleEntry \cup Wide \cup LongKeys \cup LongValues

CodecInit ==
    /\ params \in Configs
    /\ hyper = NoCall /\ decoded = NoCall
    /\ NamesIdle /\ EnvIdle /\ PredictorIdle /\ ExtraIdle

Encode ==
    /\ hyper = NoCall
    /\ hyper' = encode(params)
    /\ UNCHANGED <<params, decoded, nvars, evars, pvars, xvars>>

Decode ==
    /\ hyper # NoCall /\ hyper.status = "returned"
    /\ decoded = NoCall
    /\ decoded' = decode(hyper.value)
    /\ UNCHANGED <<params, hyper, nvars, evars, pvars, xvars>>

CodecNext == Encode \/ Decode

SpecCodec == CodecInit /\ [][CodecNext]_vars

----------------------------------------------------------------------------
(* the process environments explored, and the construction of the          *)
(* environment in them                                                     *)

MARKER == "TRAINING_JOB_NAME"

UrlWithRoot == <<"s3:", "/", "/", "b", "/", "p">>
UrlWithoutRoot == <<"s3:", "/", "/", "b">>

\* the mappings that give each of some of the keys one of its values
Choices(vals) ==
    UNION { { f \in [S -> UNION { vals[k] : k \in S }] : \A k \in S : f[k] \in vals[k] }
            : S \in SUBSET DOMAIN vals }

\* the ML2P_* variables of a serving process, each absent, empty or set
ServeEnvirons ==
    Choices([ ML2P_MODEL_VERSION |-> { <<>>, <<"v1">> },
              ML2P_RECORD_INVOKES |->
                  { <<"true">>, <<"True">>, <<"1">>, <<>>, <<"false">>, <<"true", " ">> },
              ML2P_PROJECT |-> { <<>>, <<"p">> },
              ML2P_MODEL_CLS |-> { <<>>, <<"c">> },
              ML2P_S3_URL |-> { <<>>, UrlWithRoot, UrlWithoutRoot } ])

MarkerValues == { <<>>, <<"job">> }

\* the projects a model is deployed for: recording configured or not
DeployProjects ==
    { [ project |-> <<"prj">>, s3 |-> S3URL(UrlWithRoot),
        deploy |-> d, models |-> [mt |-> <<"c">>] ]
        : d \in { <<>>, [record_invokes |-> Bool(TRUE)], [record_invokes |-> Bool(FALSE)],
                  [record_invokes |-> Str(<<"false">>)], [record_invokes |-> None] } }

\* the variables of a container that serves a model the CLI has created
DeployedEnvirons ==
    { mk_model_Environment(prj, <<"m", "-", "1", "-", "0", "-", "2">>, mt)
        : prj \in DeployProjects, mt \in { None, Str("mt") } }

\* the ML2P_ENV namespaces a hyperparameters file carries
HpNamespaces ==
    Choices(( <<"ML2P_PROJECT">> :> { Str(<<"p">>), Str(<<>>) } )
            @@ ( <<"ML2P_MODEL_CLS">> :> { Str(<<"c">>) } )
            @@ ( <<"ML2P_S3_URL">> :>
                   { Str(UrlWithRoot), Str(UrlWithoutRoot), Str(<<>>), None, Num(5) } ))

\* hyperparameters.json: the encoding of a configuration, or a file that
\* something else wrote
HpFiles ==
    { File(encode(Dict((<<"ML2P_ENV">> :> Dict(ns)) @@ (<<"a">> :> Num(1)))).value)
        : ns \in HpNamespaces }
    \cup { File(<<>>),
           File(<<"ML2P_ENV">> :> <<"1">>),
           File(<<"ML2P_ENV", ".", "ML2P_PROJECT">> :> <<"p">>) }

GoodCfg == File([project |-> <<"prj">>, s3folder |-> <<"s3:", "/", "/", "bkt", "/", "root">>])

CfgFiles ==
    { File([project |-> <<"prj">>, s3folder |-> u])
        : u \in { <<"s3:", "/", "/", "bkt", "/", "root">>, <<"s3:", "/", "/", "bkt">>,
                  <<"s3:", "/", "/", "bkt", "/", "root", "/", "sub", "/">>,
                  <<"bkt", "/", "root">>, <<>> } }
    \cup { File([project |-> <<"prj">>]), Absent }

DirSets == { {}, {ML_FOLDER}, {ML_FOLDER, MODEL_FOLDER} }

EnvInit ==
    /\ \/ /\ os_environ \in ServeEnvirons \cup DeployedEnvirons
          /\ hp_file = Absent /\ cfg_file = GoodCfg /\ dirs = {ML_FOLDER}
       \/ /\ os_environ \in { (MARKER :> <<"job">>),
                              (MARKER :> <<"job">>) @@ [ML2P_PROJECT |-> <<"q">>,
                                                        ML2P_S3_URL |-> UrlWithoutRoot,
                                                        ML2P_MODEL_CLS |-> <<"d">>] }
          /\ hp_file \in HpFiles \cup {Absent}
          /\ cfg_file \in CfgFiles
          /\ dirs \in DirSets
    /\ env = NoCall
    /\ NamesIdle /\ CodecIdle /\ PredictorIdle /\ ExtraIdle

\* the orchestrator, or the process itself, sets the marker
Setenv(v) ==
    /\ os_environ' = (MARKER :> v) @@ os_environ
    /\ os_environ' # os_environ
    /\ UNCHANGED <<hp_file, cfg_file, dirs, env, nvars, cvars, pvars, xvars>>

Unsetenv ==
    /\ MARKER \in DOMAIN os_environ
    /\ os_environ' = [ k \in DOMAIN os_environ \ {MARKER} |-> os_environ[k] ]
    /\ UNCHANGED <<hp_file, cfg_file, dirs, env, nvars, cvars, pvars, xvars>>

\* env = SageMakerEnv(ml_folder)
NewSageMakerEnv ==
    /\ env = NoCall
    /\ env' = SageMakerEnv_init(os_environ, hp_file)
    /\ UNCHANGED <<os_environ, hp_file, cfg_file, dirs, nvars, cvars, pvars, xvars>>

\* env = LocalEnv(ml_folder, cfg)
NewLocalEnv ==
    /\ env = NoCall
    /\ LET r == LocalEnv_init(cfg_file, dirs) IN
           /\ env' = r.res
           /\ dirs' = r.dirs
    /\ UNCHANGED <<os_environ, hp_file, cfg_file, nvars, cvars, pvars, xvars>>

EnvNext ==
    \/ \E v \in MarkerValues : Setenv(v)
    \/ Unsetenv
    \/ NewSageMakerEnv
    \/ NewLocalEnv

SpecEnv == EnvInit /\ [][EnvNext]_vars

----------------------------------------------------------------------------
(* a predictor serving invocations in the environment of the process *)

\* the calls of the predictor explored
MaxCalls == 2

\* the times datetime.utcnow reads off the wall clock; within a call the
\* clock does not run backwards, from one call to the next it may
Times == { 0, 1 }

Data == { Dict(<<"input">> :> Num(1)), Dict(<<"input">> :> Num(2)) }

\* the batches handed to batch_invoke: empty, of one datum, of two
Batches ==
    { <<>>, << Dict(<<"input">> :> Num(1)) >>,
      << Dict(<<"input">> :> Num(1)), Dict(<<"input">> :> Num(2)) >> }

\* the uuid4() calls of a call of the predictor: one for every record_invoke
\* it entered
Drawn(r) ==
    Len(r.log) + (IF r.res.status = "raised" /\ r.res.exc = "AttributeError" THEN 1 ELSE 0)

\* a serving container with any of the ML2P_* variables and no ml2p.yml, or
\* a training container or a checkout with an ml2p.yml
ServeInit ==
    /\ \/ /\ os_environ \in
                { <<>>,
                  [ ML2P_RECORD_INVOKES |-> <<"true">> ],
                  [ ML2P_RECORD_INVOKES |-> <<"true">>, ML2P_S3_URL |-> UrlWithoutRoot ],
                  [ ML2P_RECORD_INVOKES |-> <<"true">>, ML2P_S3_URL |-> UrlWithRoot,
                    ML2P_MODEL_VERSION |-> <<"v1">> ],
                  [ ML2P_RECORD_INVOKES |-> <<"True">>, ML2P_S3_URL |-> UrlWithRoot,
                    ML2P_MODEL_VERSION |-> <<"v1">> ],
                  [ ML2P_S3_URL |-> UrlWithRoot, ML2P_MODEL_VERSION |-> <<"v1">> ] }
          /\ cfg_file = Absent
       \/ /\ os_environ = (MARKER :> <<"job">>)
          /\ cfg_file = GoodCfg
    /\ hp_file = File(encode(Dict(<<"ML2P_ENV">> :>
                            Dict(<<"ML2P_S3_URL">> :> Str(UrlWithRoot)))).value)
    /\ dirs = {ML_FOLDER}
    /\ env = NoCall
    /\ PredictorIdle
    /\ NamesIdle /\ CodecIdle /\ ExtraIdle

\* predictor.invoke(data)
Invoke(data) ==
    /\ env # NoCall /\ env.status = "returned"
    /\ calls < MaxCalls
    /\ calls' = calls + 1
    /\ \E t1 \in Times, t2 \in Times, result_ok \in BOOLEAN, put_ok \in BOOLEAN :
           /\ t1 <= t2
           /\ \E r \in { invoke(env.value, data, t1, result_ok, t2, uuid4(uuids), put_ok,
                             s3_objects) } :
               /\ ires' = r.res
               /\ puts' = r.puts
               /\ put_log' = r.log
               /\ s3_objects' = r.store
               /\ uuids' = uuids + Drawn(r)
    /\ UNCHANGED <<evars, nvars, cvars, xvars>>

\* predictor.batch_invoke(data)
BatchInvoke(data) ==
    /\ env # NoCall /\ env.status = "returned"
    /\ calls < MaxCalls
    /\ calls' = calls + 1
    /\ \E t1 \in Times, t2s \in [1..Len(data) -> Times],
          result_bad \in 0..Len(data), put_bad \in 0..Len(data) :
           /\ result_bad = 0 \/ put_bad = 0
           /\ \A i \in 1..Len(data) : t1 <= t2s[i] /\ (i > 1 => t2s[i - 1] <= t2s[i])
           /\ \E r \in { batch_invoke(env.value, data, t1, result_bad, t2s,
                                        [ i \in 1..Len(data) |-> uuid4(uuids + i - 1) ],
                                        put_bad, s3_objects) } :
                  /\ ires' = r.res
                  /\ puts' = r.puts
                  /\ put_log' = r.log
                  /\ s3_objects' = r.store
                  /\ uuids' = uuids + Drawn(r)
    /\ UNCHANGED <<evars, nvars, cvars, xvars>>

ServeNext ==
    \/ NewSageMakerEnv
    \/ NewLocalEnv
    \/ \E data \in Data : Invoke(data)
    \/ \E data \in Batches : BatchInvoke(data)

SpecServe == ServeInit /\ [][ServeNext]_vars

----------------------------------------------------------------------------
(* a local environment that downloads datasets and models *)

\* the names of the datasets asked for: "d", "d2", which begins with d, and "e"
Datasets == { <<"d">>, <<"d", "2">>, <<"e">> }

\* the objects the bucket of the project may hold under the prefix given:
\* files and a folder placeholder of dataset d, an object named like the
\* dataset itself, files of the datasets d2 and e, and the model of the
\* training job 1
RemoteObjects(root) ==
    LET under(key) == IF root = <<>> THEN key ELSE root \o <<"/">> \o key IN
    { under(<<"datasets", "/", "d", "/", "x">>),
      under(<<"datasets", "/", "d", "/", "sub", "/">>),
      under(<<"datasets", "/", "d", "/", "sub", "/", "y">>),
      under(<<"datasets", "/", "d">>),
      under(<<"datasets", "/", "d", "2", "/", "z">>),
      under(<<"datasets", "/", "e", "/", "w">>),
      under(<<"models", "/", "prj", "-", "1", "/", "output", "/", "model.tar.gz">>) }

\* the content of an object: a tar file for a model, its own name otherwise
ContentOf(key) ==
    IF key[Len(key)] = "model.tar.gz" THEN <<"tar:", "pipeline.json">> ELSE <<key[Len(key)]>>

LocalCfgs ==
    { File([project |-> <<"prj">>, s3folder |-> u])
        : u \in { <<"s3:", "/", "/", "bkt", "/", "root">>, <<"s3:", "/", "/", "bkt">> } }

LocalInit ==
    /\ cfg_file \in LocalCfgs
    /\ os_environ = <<>> /\ hp_file = Absent
    /\ dirs = {ML_FOLDER}
    /\ env = NoCall
    /\ session \in { None, Str(<<"session">>) }
    /\ \E keys \in SUBSET RemoteObjects(S3URL(cfg_file.content.s3folder).s3root) :
           s3_objects = [ at \in { <<<<"bkt">>, k>> : k \in keys } |-> ContentOf(at[2]) ]
    /\ local_dirs = {} /\ local_files = <<>> /\ requests = <<>> /\ lres = NoCall
    /\ ires = NoCall /\ puts = 0 /\ calls = 0 /\ put_log = <<>> /\ uuids = 0
    /\ NamesIdle /\ CodecIdle /\ ApiIdle /\ CliIdle /\ DockerIdle

\* env.download_dataset(dataset)
DownloadDataset(dataset) ==
    /\ env # NoCall /\ env.status = "returned" /\ env.op = "LocalEnv"
    /\ \E r \in { download_dataset(env.value, session, dataset, s3_objects, dirs,
                                     local_dirs, local_files) } :
           /\ lres' = r.res
           /\ dirs' = r.dirs
           /\ local_dirs' = r.made
           /\ local_files' = r.files
           /\ requests' = r.reqs
    /\ UNCHANGED <<os_environ, hp_file, cfg_file, env, session, nvars, cvars, pvars,
                   avars, tvars, dvars>>

\* env.download_model(training_job)
DownloadModel(training_job) ==
    /\ env # NoCall /\ env.status = "returned" /\ env.op = "LocalEnv"
    /\ \E r \in { download_model(env.value, session, ModellingProject(cfg_file).value,
                                   training_job, s3_objects, dirs, local_dirs,
                                   local_files) } :
           /\ lres' = r.res
           /\ dirs' = r.dirs
           /\ local_dirs' = r.made
           /\ local_files' = r.files
           /\ requests' = r.reqs
    /\ UNCHANGED <<os_environ, hp_file, cfg_file, env, session, nvars, cvars, pvars,
                   avars, tvars, dvars>>

LocalNext ==
    \/ NewLocalEnv
    \/ \E dataset \in Datasets : DownloadDataset(dataset)
    \/ \E training_job \in { <<"1">>, <<"2">> } : DownloadModel(training_job)

SpecLocal == LocalInit /\ [][LocalNext]_vars

----------------------------------------------------------------------------
(* the grammars of the resource names, read from the right: the optional   *)
(* suffixes, then the numbers, each after a "-", then the model part       *)

IsModelPart(s) == Len(s) >= 1 /\ \A i \in 1..Len(s) : s[i] \in NameChars
IsNumber(s) == Len(s) >= 1 /\ \A i \in 1..Len(s) : s[i] \in {"0", "1", "2", "9"}

RECURSIVE TrailingDigits(_)
TrailingDigits(s) ==
    IF s # <<>> /\ s[Len(s)] \in {"0", "1", "2", "9"}
    THEN 1 + TrailingDigits(DropLast(s, 1)) ELSE 0

\* s is <rest>-<number>
HasNumber(s) ==
    LET d == TrailingDigits(s) IN d >= 1 /\ Len(s) > d /\ s[Len(s) - d] = "-"
\* the <rest> of <rest>-<number>
BeforeNumber(s) == DropLast(s, TrailingDigits(s) + 1)

RECURSIVE ModelAndNumbers(_, _)
\* s is <model>-<number>-...-<number> with k numbers
ModelAndNumbers(s, k) ==
    IF k = 0 THEN IsModelPart(s)
    ELSE HasNumber(s) /\ ModelAndNumbers(BeforeNumber(s), k - 1)

DevTails == { <<>>, <<"-", "dev">> }
StageTails == { <<>>, <<"-", "live">>, <<"-", "analysis">>, <<"-", "test">> }

IsDataset(s) ==
    /\ TrailingDigits(s) = 8
    /\ HasNumber(s)
    /\ IsModelPart(BeforeNumber(s))
IsTrainingJob(s) ==
    \E d \in DevTails : EndsWith(s, d) /\ ModelAndNumbers(DropLast(s, Len(d)), 2)
\* a model name with its patch number
IsModel(s) ==
    \E d \in DevTails : EndsWith(s, d) /\ ModelAndNumbers(DropLast(s, Len(d)), 3)
\* a model name whose patch number is optional
IsModelOptionalPatch(s) ==
    \E d \in DevTails : EndsWith(s, d) /\
        \E k \in {2, 3} : ModelAndNumbers(DropLast(s, Len(d)), k)
IsEndpoint(s) ==
    \E d \in DevTails, g \in StageTails :
        EndsWith(s, d \o g) /\ ModelAndNumbers(DropLast(s, Len(d \o g)), 3)

\* the text without the newline that ends it, if one does
Chomp(s) == IF EndsWith(s, <<"\n">>) THEN DropLast(s, 1) ELSE s

ExpectedMessage(kind) ==
    CASE kind = "dataset" ->
           "Dataset names should be in the format <model-name>-YYYYMMDD"
      [] kind = "training-job" ->
           "Training job names should be in the format <model-name>-X-Y-Z-[dev]"
      [] kind = "model" ->
           "Model names should be in the format <model-name>-X-Y-Z-[dev]"
      [] kind = "endpoint" ->
           "Endpoint names should be in the format <model-name>-X-Y-Z-[dev]-[live|analysis|test]"

\* what validate_name did, against a grammar
ValidatesBy(InGrammar(_, _)) ==
    nres.op = "validate_name" =>
        /\ nres.status = "raised" <=> ~InGrammar(nres.arg, name)
        /\ nres.status = "raised" =>
               nres.exc = "NamingError" /\ nres.msg = ExpectedMessage(nres.arg)
        /\ nres.status = "returned" => nres.value = None

GrammarOfClaim(kind, s) ==
    CASE kind = "dataset" -> IsDataset(s)
      [] kind = "training-job" -> IsTrainingJob(s)
      [] kind = "model" -> IsModelOptionalPatch(s)
      [] kind = "endpoint" -> IsEndpoint(s)

GrammarOfCode(kind, s) ==
    CASE kind = "dataset" -> IsDataset(Chomp(s))
      [] kind = "training-job" -> IsTrainingJob(Chomp(s))
      [] kind = "model" -> IsModel(Chomp(s))
      [] kind = "endpoint" -> IsEndpoint(Chomp(s))

WithoutPatch(s) ==
    LET d == IF EndsWith(s, <<"-", "dev">>) THEN 2 ELSE 0
    IN BeforeNumber(DropLast(s, d))

\* C3: training_job_name_for_model raises NamingError exactly when its
\* argument is not a model name, and otherwise returns the argument less
\* its -dev marker and its patch number, nothing else changed
C3_TrainingJobNameForModel ==
    nres.op = "training_job_name_for_model" =>
        /\ nres.status = "raised" <=> ~IsModel(name)
        /\ nres.status = "raised" => nres.exc = "NamingError"
        /\ nres.status = "returned" => nres.value = WithoutPatch(name)

\* e less its stage suffix
WithoutStage(s) ==
    IF \E g \in StageTails \ { <<>> } : EndsWith(s, g) THEN DropLast(s, 2) ELSE s

\* C4: model_name_for_endpoint raises NamingError exactly when its argument
\* is not an endpoint name, and otherwise returns the argument less its
\* stage suffix, the -dev marker and every other character kept
C4_ModelNameForEndpoint ==
    nres.op = "model_name_for_endpoint" =>
        /\ nres.status = "raised" <=> ~IsEndpoint(name)
        /\ nres.status = "raised" => nres.exc = "NamingError"
        /\ nres.status = "returned" => nres.value = WithoutStage(name)

\* C3 and C4 on the names that no newline ends
NoNewline == ~EndsWith(name, <<"\n">>)
C3_OnNamesWithoutNewline == NoNewline => C3_TrainingJobNameForModel
C4_OnNamesWithoutNewline == NoNewline => C4_ModelNameForEndpoint

RECURSIVE HasEmptySubMapping(_)
\* some mapping nested in x, at any depth, has no entry
HasEmptySubMapping(x) ==
    \E k \in DOMAIN x.v :
        IsDict(x.v[k]) /\ (DOMAIN x.v[k].v = {} \/ HasEmptySubMapping(x.v[k]))

\* C1: for every configuration that encode accepts and that holds no empty
\* sub-mapping, decode of its encoding succeeds and gives the configuration
\* back
C1_RoundTrip ==
    (decoded # NoCall /\ ~HasEmptySubMapping(params)) =>
        decoded.status = "returned" /\ decoded.value = params

\* a nested configuration with a list in it has gone through encode and decode
C1_Witness ==
    /\ decoded # NoCall /\ decoded.status = "returned"
    /\ params = Dict(<<"a">> :> Dict(<<"a">> :> List(<<Str(<<"a">>), None, List(<<Bool(TRUE)>>)>>)))
    /\ DOMAIN hyper.value = { <<"a", ".", "a">> }

\* the round trip on every configuration, empty sub-mappings included
C1_RoundTripOfAll ==
    decoded # NoCall => decoded.status = "returned" /\ decoded.value = params

----------------------------------------------------------------------------
(* the environment of the process *)

Constructed(cls) == env # NoCall /\ env.status = "returned" /\ env.op = cls
IsTrain == Constructed("SageMakerEnv") /\ env.value.env_type = "train"
IsServe == Constructed("SageMakerEnv") /\ env.value.env_type = "serve"
IsLocal == Constructed("LocalEnv")

\* C5: the kind of an environment constructed without an explicit source is
\* Train if the marker is in the process environment when it is constructed
\* and Serve if not, never Local, and once constructed the environment does
\* not change, whatever happens to the marker
C5_KindDecidedOnce ==
    [][ /\ NewSageMakerEnv /\ env'.status = "returned" =>
             env'.value.env_type = IF MARKER \in DOMAIN os_environ THEN "train" ELSE "serve"
        /\ env # NoCall => env' = env ]_vars

\* a Train environment whose marker has since been removed
C5_Witness == IsTrain /\ MARKER \notin DOMAIN os_environ

\* the ML2P_ENV namespace of the decoded hyperparameters file, empty when
\* there is no file or no namespace
NamespaceOfFile ==
    IF ~hp_file.exists THEN <<>>
    ELSE Get(decode(hp_file.content).value.v, <<"ML2P_ENV">>, EmptyDict).v

\* the storage root of a URL: its bucket and its key prefix
StorageRoot(url) == [t |-> "S3URL", netloc |-> urlparse(url).netloc,
                     s3root |-> Strip(urlparse(url).path, "/")]

\* what the file gives a Train environment, but for its storage root
TrainFieldsFromFile(e) ==
    /\ e.project = Get(NamespaceOfFile, <<"ML2P_PROJECT">>, None)
    /\ e.model_cls = Get(NamespaceOfFile, <<"ML2P_MODEL_CLS">>, None)
    /\ e.training_job_name = Str(os_environ[MARKER])
    /\ e.model_version = None

\* C6 as stated: the storage root of a Train environment is the ML2P_S3_URL
\* entry of the namespace whenever there is one
C6_AsStated ==
    [][ NewSageMakerEnv /\ env'.status = "returned" /\ MARKER \in DOMAIN os_environ =>
          /\ TrainFieldsFromFile(env'.value)
          /\ env'.value.s3 =
                LET url == Get(NamespaceOfFile, <<"ML2P_S3_URL">>, None)
                IN IF url = None THEN None
                   ELSE IF url.t = "str" THEN StorageRoot(url.v) ELSE url ]_vars

\* C6 amended: in a Train environment project and modelClass are the entries
\* of the ML2P_ENV namespace of the decoded file, absent when the entry is
\* missing; storageRoot is the bucket and prefix of the ML2P_S3_URL entry
\* when that entry is a non-empty value, and absent when the entry is
\* missing, null or empty; trainingJobName is the value of the marker;
\* modelVersion is absent; without a file the construction succeeds with
\* project, storageRoot and modelClass all absent
C6_TrainFromFile ==
    [][ NewSageMakerEnv /\ MARKER \in DOMAIN os_environ =>
          /\ ~hp_file.exists =>
               /\ env'.status = "returned"
               /\ env'.value.project = None /\ env'.value.model_cls = None
               /\ env'.value.s3 = None
          /\ env'.status = "returned" =>
               /\ env'.value.env_type = "train"
               /\ TrainFieldsFromFile(env'.value)
               /\ env'.value.s3 =
                     LET url == Get(NamespaceOfFile, <<"ML2P_S3_URL">>, None)
                     IN IF Truthy(url) THEN StorageRoot(url.v) ELSE None ]_vars

\* a Train environment has taken its project and storage root from the file
\* while the process environment names another project
C6_Witness ==
    /\ IsTrain
    /\ env.value.project = Str(<<"p">>) /\ env.value.model_cls = None
    /\ env.value.s3 = [t |-> "S3URL", netloc |-> <<"b">>, s3root |-> <<"p">>]
    /\ env.value.training_job_name = Str(<<"job">>)
    /\ "ML2P_PROJECT" \in DOMAIN os_environ /\ os_environ["ML2P_PROJECT"] = <<"q">>

ServeField(e, var) ==
    CASE var = "ML2P_PROJECT" -> e.project
      [] var = "ML2P_S3_URL" -> e.s3
      [] var = "ML2P_MODEL_VERSION" -> e.model_version
      [] var = "ML2P_MODEL_CLS" -> e.model_cls

ServeVars == { "ML2P_PROJECT", "ML2P_S3_URL", "ML2P_MODEL_VERSION", "ML2P_MODEL_CLS" }

\* C7 as stated: in a Serve environment each of project, storageRoot,
\* modelVersion and modelClass is absent exactly when its variable is absent
C7_AsStated ==
    IsServe => \A var \in ServeVars :
        ServeField(env.value, var) = None <=> var \notin DOMAIN os_environ

\* C7 amended: in a Serve environment each of project, modelVersion and
\* modelClass is absent exactly when its variable is absent, and is the text
\* of the variable, the empty text included, when it is present; storageRoot
\* is absent exactly when ML2P_S3_URL is absent or empty; no absent variable
\* resolves to an empty text
C7_ServeAbsent ==
    IsServe =>
        /\ \A var \in ServeVars \ {"ML2P_S3_URL"} :
             /\ ServeField(env.value, var) = None <=> var \notin DOMAIN os_environ
             /\ var \in DOMAIN os_environ =>
                    ServeField(env.value, var) = Str(os_environ[var])
        /\ env.value.s3 = None <=>
               ("ML2P_S3_URL" \notin DOMAIN os_environ \/ os_environ["ML2P_S3_URL"] = <<>>)
        /\ \A var \in ServeVars :
               var \notin DOMAIN os_environ => ServeField(env.value, var) # Str(<<>>)

\* a Serve environment with an empty project, an empty URL and no model class
C7_Witness ==
    /\ IsServe
    /\ env.value.project = Str(<<>>) /\ env.value.s3 = None /\ env.value.model_cls = None
    /\ "ML2P_S3_URL" \in DOMAIN os_environ
    /\ "ML2P_MODEL_CLS" \notin DOMAIN os_environ

\* C8: in a Serve environment recordInvokes is true exactly when
\* ML2P_RECORD_INVOKES is present with the text "true", and false otherwise;
\* the variables the CLI writes for a project whose deployment configures
\* recording make it true
C8_RecordInvokes ==
    IsServe =>
        /\ env.value.record_invokes =
               Bool("ML2P_RECORD_INVOKES" \in DOMAIN os_environ
                    /\ os_environ["ML2P_RECORD_INVOKES"] = <<"true">>)
        /\ \A prj \in DeployProjects, mt \in { None, Str("mt") } :
             ( /\ "record_invokes" \in DOMAIN prj.deploy
               /\ prj.deploy["record_invokes"] = Bool(TRUE)
               /\ os_environ = mk_model_Environment(prj, <<"m", "-", "1", "-", "0", "-", "2">>, mt) )
             => env.value.record_invokes = Bool(TRUE)

\* a Serve environment records in a container the CLI has configured
C8_Witness ==
    /\ IsServe
    /\ env.value.record_invokes = Bool(TRUE)
    /\ env.value.model_version = Str(<<"prj", "-", "m", "-", "1", "-", "0", "-", "2">>)
    /\ os_environ \in DeployedEnvirons

\* C9: a constructed Local environment has kind Local, modelVersion "local",
\* recordInvokes false, no trainingJobName and no modelClass, and the project
\* and the storage root of the configuration file, whatever the marker and
\* the ML2P_* variables of the process are
C9_Local ==
    IsLocal =>
        /\ env.value.env_type = "local"
        /\ env.value.model_version = Str(<<"local">>)
        /\ env.value.record_invokes = Bool(FALSE)
        /\ env.value.training_job_name = None
        /\ env.value.model_cls = None
        /\ env.value.project = Str(cfg_file.content["project"])
        /\ env.value.s3 = StorageRoot(cfg_file.content["s3folder"])

\* a Local environment in a process that has the marker and ML2P_* variables
C9_Witness ==
    /\ IsLocal
    /\ MARKER \in DOMAIN os_environ
    /\ "ML2P_PROJECT" \in DOMAIN os_environ /\ os_environ["ML2P_PROJECT"] = <<"q">>
    /\ env.value.s3 = [t |-> "S3URL", netloc |-> <<"bkt">>, s3root |-> <<"root", "/", "sub">>]

----------------------------------------------------------------------------
(* invocations *)

Recording == env.value.record_invokes = Bool(TRUE)

\* the prediction invoke returns for its input: the result for the input and
\* the metadata of the environment, whether or not it records
ReturnsPrediction ==
    ires.status = "returned" =>
        /\ DOMAIN ires.value.v = { <<"metadata">>, <<"result">> }
        /\ ires.value.v[<<"result">>] = Dict(<<"probability">> :> ires.arg.v[<<"input">>])
        /\ \E t \in Times :
             ires.value.v[<<"metadata">>] =
                Dict((<<"model_version">> :> env.value.model_version)
                     @@ (<<"ml2p_version">> :> Str(<<"0.2.3">>))
                     @@ (<<"timestamp">> :> Num(t)))

\* the prediction of the call was computed: result(data) did not raise
PredictionComputed == ~(ires.status = "raised" /\ ires.exc = "NotImplementedError")

\* C10 as stated: once it has its prediction, invoke performs exactly one
\* storage write when recordInvokes is true and none when it is false or
\* absent, and the prediction it returns is the same in both cases
C10_AsStated ==
    (ires.op = "invoke" /\ PredictionComputed) =>
        /\ puts = IF Recording THEN 1 ELSE 0
        /\ ReturnsPrediction

\* C10 amended: once it has its prediction, invoke performs exactly one
\* storage write when recordInvokes is true and the environment has a
\* storage root, and none when recordInvokes is false or absent; when
\* recordInvokes is true and the storage root is absent it performs no write
\* and raises instead of returning; the prediction returned is the same
\* whether or not it is recorded
C10_Invoke ==
    ires.op = "invoke" =>
        /\ PredictionComputed =>
               puts = IF Recording /\ env.value.s3 # None THEN 1 ELSE 0
        /\ ~PredictionComputed => puts = 0
        /\ (PredictionComputed /\ Recording /\ env.value.s3 = None) =>
               ires.status = "raised"
        /\ ReturnsPrediction

\* an invoke has returned after one write, in a Serve environment
C10_Witness ==
    /\ ires.op = "invoke" /\ ires.status = "returned" /\ puts = 1
    /\ IsServe /\ Recording
    /\ DOMAIN s3_objects # {}

----------------------------------------------------------------------------
(* invocation records *)

\* the last call of the predictor, and whether it returned
Called == ires.op \in { "invoke", "batch_invoke" }
CallReturned == Called /\ ires.status = "returned"

\* the inputs of the last call and, once it returned, the predictions it
\* handed to its caller, one for each input
CallInputs == IF ires.op = "invoke" THEN << ires.arg >> ELSE ires.arg
CallPredictions ==
    IF ires.op = "invoke" THEN << ires.value >> ELSE ires.value.v[<<"predictions">>].v

\* <storage prefix>/predictions/<modelVersion>/ts-<timestamp>--uuid-<uuid>.json
RecordKey(prefix, version, ts, u) ==
    (IF prefix = <<>> THEN <<>> ELSE prefix \o <<"/">>)
        \o <<"predictions", "/">> \o version
        \o <<"/", "ts", "-">> \o ts \o <<"--", "uuid", "-", u, ".json">>

\* the model version as it is written into a key
VersionText == IF env.value.model_version = None THEN <<"None">> ELSE env.value.model_version.v

\* the timestamp and the uuid of a key, when it has the shape of RecordKey
HasRecordKey(key) ==
    \E t \in Times, n \in 1..Len(UUIDs) :
        key = RecordKey(env.value.s3.s3root, VersionText, <<"T", DigitOf(t)>>, UUIDs[n])

\* C11: every object record_invoke writes goes to the bucket of the storage
\* root under the key <prefix>/predictions/<modelVersion>/ts-<ts>--uuid-<uuid>.json
\* (the text None for an absent model version), with no leading "/" even when
\* the prefix is empty, and its payload is exactly {"input": datum,
\* "result": prediction}; when the call returns, the prediction of the i-th
\* record is the very value handed to the caller for the i-th input
C11_RecordWritten ==
    Called =>
        \A i \in 1..Len(put_log) :
            /\ put_log[i].Bucket = env.value.s3.netloc
            /\ HasRecordKey(put_log[i].Key)
            /\ Head(put_log[i].Key) # "/"
            /\ LET payload == json_loads(put_log[i].Body) IN
                   /\ payload.ok
                   /\ payload.v.t = "dict"
                   /\ DOMAIN payload.v.v = { <<"input">>, <<"result">> }
                   /\ payload.v.v[<<"input">>] = CallInputs[i]
                   /\ DOMAIN payload.v.v[<<"result">>].v = { <<"metadata">>, <<"result">> }
                   /\ CallReturned => payload.v.v[<<"result">>] = CallPredictions[i]
            /\ put_log[i].ok =>
                   /\ <<put_log[i].Bucket, put_log[i].Key>> \in DOMAIN s3_objects
                   /\ s3_objects[<<put_log[i].Bucket, put_log[i].Key>>] = put_log[i].Body

\* an invoke has returned after it wrote its record under a storage root
\* with an empty prefix: the key starts with predictions/
C11_Witness ==
    /\ ires.op = "invoke" /\ ires.status = "returned"
    /\ Len(put_log) = 1 /\ put_log[1].ok
    /\ env.value.s3.s3root = <<>>
    /\ Head(put_log[1].Key) = "predictions"
    /\ json_loads(put_log[1].Body).v.v[<<"result">>] = ires.value

----------------------------------------------------------------------------
(* batches *)

\* the prediction of datum under the metadata meta
PredictionOf(meta, datum) ==
    Dict((<<"metadata">> :> meta)
         @@ (<<"result">> :> Dict(<<"probability">> :> datum.v[<<"input">>])))

\* a metadata value of the environment of the process, read at some time
IsMetadata(meta) ==
    \E t \in Times :
        meta = Dict((<<"model_version">> :> env.value.model_version)
                    @@ (<<"ml2p_version">> :> Str(<<"0.2.3">>))
                    @@ (<<"timestamp">> :> Num(t)))

\* the batch returned one prediction for each input, in the order of the
\* inputs, all under one metadata value
ReturnsBatch ==
    /\ ires.status = "returned"
    /\ DOMAIN ires.value.v = { <<"predictions">> }
    /\ Len(CallPredictions) = Len(ires.arg)
    /\ \E meta \in { CallPredictions[i].v[<<"metadata">>] : i \in 1..Len(ires.arg) } \cup
                    { ires.value } :
           /\ Len(ires.arg) > 0 => IsMetadata(meta)
           /\ \A i \in 1..Len(ires.arg) : CallPredictions[i] = PredictionOf(meta, ires.arg[i])

\* the call wrote one record for each input, the i-th for the i-th input and
\* the i-th prediction returned, under pairwise distinct keys
WroteBatch ==
    /\ Len(put_log) = Len(CallInputs)
    /\ \A i \in 1..Len(put_log) :
           /\ put_log[i].ok
           /\ json_loads(put_log[i].Body).v =
                  Dict((<<"input">> :> CallInputs[i]) @@ (<<"result">> :> CallPredictions[i]))
           /\ s3_objects[<<put_log[i].Bucket, put_log[i].Key>>] = put_log[i].Body
    /\ \A i, j \in 1..Len(put_log) : i # j => put_log[i].Key # put_log[j].Key

\* S3 refused none of the writes of the last call
NoWriteRefused == \A i \in 1..Len(put_log) : put_log[i].ok

\* C12 as stated: a batch_invoke whose results were all computed and none of
\* whose writes S3 refused returns N predictions in input order under one
\* metadata value and, with recording enabled, has performed exactly N
\* writes, the i-th pairing the i-th input with the i-th prediction, under
\* pairwise distinct keys
C12_AsStated ==
    (ires.op = "batch_invoke" /\ PredictionComputed /\ NoWriteRefused) =>
        /\ ReturnsBatch
        /\ Recording => WroteBatch

\* C12 amended: a batch_invoke that returns gives N predictions in input
\* order under one metadata value computed once for the batch; with
\* recording enabled and a storage root it then has performed exactly N
\* writes, the i-th pairing the i-th input with the i-th prediction, under N
\* pairwise distinct keys even when all timestamps coincide, and it returns
\* whenever all results were computed and no write was refused; with
\* recording enabled, no storage root and N >= 1 it raises with no write;
\* without recording it writes nothing
C12_BatchInvoke ==
    ires.op = "batch_invoke" =>
        /\ ires.status = "returned" => ReturnsBatch
        /\ (ires.status = "returned" /\ Recording /\ env.value.s3 # None) => WroteBatch
        /\ (PredictionComputed /\ NoWriteRefused /\ (Recording => env.value.s3 # None)) =>
               ires.status = "returned"
        /\ (PredictionComputed /\ Recording /\ env.value.s3 = None) =>
               IF Len(ires.arg) = 0
               THEN ires.status = "returned" /\ put_log = <<>>
               ELSE ires.status = "raised" /\ put_log = <<>>
        /\ ~Recording => put_log = <<>>
        /\ \A i, j \in 1..Len(put_log) : i # j => put_log[i].Key # put_log[j].Key

\* a batch of two has returned after two writes made at one and the same
\* time: the two keys differ in the uuid only
C12_Witness ==
    /\ ires.op = "batch_invoke" /\ ires.status = "returned"
    /\ Len(ires.arg) = 2 /\ IsServe /\ Recording
    /\ Len(put_log) = 2
    /\ put_log[1].Key # put_log[2].Key
    /\ \E i \in 1..Len(put_log[1].Key) :
           /\ put_log[1].Key[i] \in Range(UUIDs)
           /\ put_log[2].Key = [put_log[1].Key EXCEPT ![i] = put_log[2].Key[i]]

----------------------------------------------------------------------------
(* the store of invocation records over a run of calls *)

\* every record stored before the step is still stored, unchanged, after it
RecordsKept ==
    \A at \in DOMAIN s3_objects :
        at \in DOMAIN s3_objects' /\ s3_objects'[at] = s3_objects[at]

\* no write of the step goes to a key that held a record before the step
NoKeyRewritten ==
    calls' # calls =>
        \A i \in 1..Len(put_log') :
            <<put_log'[i].Bucket, put_log'[i].Key>> \notin DOMAIN s3_objects

----------------------------------------------------------------------------
(* failures *)

\* C14: when S3 refuses a write of invoke or batch_invoke, the call raises the
\* storage error and returns no prediction; the refused write is the last the
\* call attempts
C14_WriteFailurePropagates ==
    (Called /\ ~NoWriteRefused) =>
        /\ ires.status = "raised" /\ ires.exc = "ClientError"
        /\ \A i \in 1..Len(put_log) : ~put_log[i].ok => i = Len(put_log)

\* S3 has refused the second write of a batch of two: the call has raised
\* with the first record stored
C14_Witness ==
    /\ ires.op = "batch_invoke" /\ ires.status = "raised"
    /\ Len(put_log) = 2 /\ put_log[1].ok /\ ~put_log[2].ok
    /\ <<put_log[1].Bucket, put_log[1].Key>> \in DOMAIN s3_objects
    /\ <<put_log[2].Bucket, put_log[2].Key>> \notin DOMAIN s3_objects

\* the payload of a write holds a complete prediction: the metadata of the
\* environment and the result for the input of the record
HoldsPrediction(put) ==
    LET payload == json_loads(put.Body).v.v IN
        /\ IsMetadata(payload[<<"result">>].v[<<"metadata">>])
        /\ payload[<<"result">>] =
               PredictionOf(payload[<<"result">>].v[<<"metadata">>], payload[<<"input">>])

\* C15: a record is written only after the complete prediction has been
\* computed: a call of invoke or batch_invoke in which computing a result
\* raises issues no write and leaves the store as it was, whichever result of
\* the batch it is, and every write a call issues holds a complete prediction
C15_RecordAfterPrediction ==
    [][calls' # calls =>
          /\ (ires'.status = "raised" /\ ires'.exc = "NotImplementedError") =>
                 put_log' = <<>> /\ s3_objects' = s3_objects
          /\ \A i \in 1..Len(put_log') : HoldsPrediction(put_log'[i])]_vars

\* computing a result of a batch of two has raised in a recording
\* environment with a storage root: nothing was written
C15_Witness ==
    /\ ires.op = "batch_invoke" /\ ires.status = "raised"
    /\ ires.exc = "NotImplementedError" /\ Len(ires.arg) = 2
    /\ IsServe /\ Recording /\ env.value.s3 # None
    /\ put_log = <<>> /\ puts = 0

----------------------------------------------------------------------------
(* the flat entries of a configuration *)

RECURSIVE LeavesOf(_, _)
\* the leaves of the mapping x, each with the path of key segments that leads
\* to it: the values that are no mapping, at every depth
LeavesOf(prefix, x) ==
    UNION { IF x.v[k].t = "dict"
            THEN LeavesOf(Append(prefix, k), x.v[k])
            ELSE { [path |-> Append(prefix, k), val |-> x.v[k]] }
          : k \in DOMAIN x.v }

RECURSIVE SegmentsOf(_)
\* every key segment of the mapping x, over leaves and over sub-mappings
SegmentsOf(x) ==
    DOMAIN x.v \cup UNION { IF x.v[k].t = "dict" THEN SegmentsOf(x.v[k]) ELSE {}
                           : k \in DOMAIN x.v }

RECURSIVE Chars(_)
\* the number of characters of a text
Chars(txt) == IF txt = <<>> THEN 0 ELSE CharLen(Head(txt)) + Chars(Tail(txt))

RECURSIVE KeyChars(_)
\* the number of characters of the dotted key of a path: those of the
\* segments and one for every separator
KeyChars(path) ==
    IF Len(path) = 1 THEN Chars(path[1])
    ELSE Chars(Head(path)) + 1 + KeyChars(Tail(path))

Dotted(x) == \E seg \in SegmentsOf(x) : \E i \in 1..Len(seg) : seg[i] = "."
TooLong(x) ==
    \E l \in LeavesOf(<<>>, x) : KeyChars(l.path) > 256 \/ Chars(json_dumps(l.val)) > 256
TooMany(x) == Cardinality(LeavesOf(<<>>, x)) > 100

Encoded == hyper # NoCall /\ hyper.status = "returned"
EncodeRaised ==
    /\ hyper # NoCall /\ hyper.status = "raised"
    /\ hyper.exc = "HyperParameterEncodingError"
    /\ "value" \notin DOMAIN hyper

\* C16: encode of a mapping whose keys and values it accepts succeeds when
\* the mapping has at most 100 leaves, counted over every nesting depth, and
\* gives that many flat entries; with more than 100 leaves it raises
\* HyperParameterEncodingError and returns no flat mapping
C16_CountLimit ==
    (hyper # NoCall /\ ~Dotted(params) /\ ~TooLong(params)) =>
        IF TooMany(params)
        THEN EncodeRaised
        ELSE Encoded /\ Cardinality(DOMAIN hyper.value) = Cardinality(LeavesOf(<<>>, params))

\* encode has raised on a mapping of two top-level keys and 101 leaves
C16_Witness ==
    /\ EncodeRaised
    /\ Cardinality(DOMAIN params.v) = 2
    /\ Cardinality(LeavesOf(<<>>, params)) = 101

\* encode has returned the 100 flat entries of a mapping of two top-level keys
C16_WitnessAtLimit ==
    /\ Encoded /\ Cardinality(DOMAIN hyper.value) = 100
    /\ Cardinality(DOMAIN params.v) = 2

\* C17: encode of a mapping without dotted key segments and with at most 100
\* leaves succeeds when every dotted key (segments and separators) has at
\* most 256 characters and every JSON value text (quotes included) has at
\* most 256 characters, and raises HyperParameterEncodingError as soon as one
\* of the two lengths is 257 or more
C17_LengthLimits ==
    (hyper # NoCall /\ ~Dotted(params) /\ ~TooMany(params)) =>
        IF \E l \in LeavesOf(<<>>, params) :
               KeyChars(l.path) >= 257 \/ Chars(json_dumps(l.val)) >= 257
        THEN EncodeRaised
        ELSE /\ Encoded
             /\ \A key \in DOMAIN hyper.value :
                    Chars(key) <= 256 /\ Chars(hyper.value[key]) <= 256

\* encode has returned an entry whose dotted key of three segments has
\* exactly 256 characters
C17_Witness ==
    /\ Encoded
    /\ \E key \in DOMAIN hyper.value :
           /\ Chars(key) = 256
           /\ Cardinality({ i \in 1..Len(key) : key[i] = "." }) = 2

\* encode has raised on a string value of 255 characters, whose JSON text
\* has 257
C17_WitnessValue ==
    /\ EncodeRaised
    /\ \E l \in LeavesOf(<<>>, params) :
           l.val.t = "str" /\ Chars(l.val.v) = 255 /\ Chars(json_dumps(l.val)) = 257

\* C18: encode raises HyperParameterEncodingError whenever a key segment of
\* its input contains a ".", at any depth and whether the segment leads to a
\* leaf or to a sub-mapping; every flat key of a successful encode splits on
\* "." into exactly the path of key segments to its leaf
C18_NoDottedSegment ==
    hyper # NoCall =>
        /\ Dotted(params) => EncodeRaised
        /\ Encoded =>
               { Split(key, ".") : key \in DOMAIN hyper.value }
                   = { l.path : l \in LeavesOf(<<>>, params) }

\* encode has raised on a mapping whose only dotted key segment leads to a
\* sub-mapping
C18_Witness ==
    /\ EncodeRaised
    /\ \E k \in DOMAIN params.v :
           /\ \E i \in 1..Len(k) : k[i] = "."
           /\ params.v[k].t = "dict"
           /\ ~Dotted(params.v[k])

\* C19: a successful encode gives exactly one flat entry for every leaf
\* (scalar, null or list) of its input, keyed by the "."-joined path to the
\* leaf and valued by the JSON text of the leaf; a list is a leaf also when
\* it holds mappings, no mapping is emitted as a value, a top-level leaf has
\* a key without dots, and an empty mapping gives an empty flat mapping
C19_OneEntryPerLeaf ==
    Encoded =>
        LET leaves == LeavesOf(<<>>, params) IN
        /\ Cardinality(DOMAIN hyper.value) = Cardinality(leaves)
        /\ \A l \in leaves :
               /\ Join(<<".">>, l.path) \in DOMAIN hyper.value
               /\ hyper.value[Join(<<".">>, l.path)] = json_dumps(l.val)
               /\ json_loads(hyper.value[Join(<<".">>, l.path)]).ok
               /\ json_loads(hyper.value[Join(<<".">>, l.path)]).v = l.val
               /\ l.val.t # "dict"
        /\ \A k \in DOMAIN params.v :
               params.v[k].t # "dict" =>
                   k \in DOMAIN hyper.value /\ \A i \in 1..Len(k) : k[i] # "."
        /\ params = EmptyDict => hyper.value = <<>>

\* encode has returned, for a list that holds a mapping one mapping down, the
\* one entry a.a whose value is the JSON text of the list
C19_Witness ==
    /\ Encoded
    /\ params = Dict(<<"a">> :> Dict(<<"a">> :> List(<<Dict(<<"a">> :> Num(1))>>)))
    /\ hyper.value = (<<"a", ".", "a">> :> <<"[", "{", "\"", "a", "\"", ":", " ", "1", "}", "]">>)

----------------------------------------------------------------------------
(* a Local environment without its working folder *)

\* the configuration file is there and names the project and its S3 folder
ReadableCfg ==
    cfg_file.exists /\ {"project", "s3folder"} \subseteq DOMAIN cfg_file.content

\* C20: constructing a Local environment from a readable configuration file
\* when the working folder does not exist fails with LocalEnvError, and the
\* failed construction creates no folder, the model folder in particular
C20_LocalFolderMissing ==
    [][(env = NoCall /\ env' # NoCall /\ env'.op = "LocalEnv"
            /\ ReadableCfg /\ ML_FOLDER \notin dirs) =>
          /\ env'.status = "raised" /\ env'.exc = "LocalEnvError"
          /\ dirs' = dirs
          /\ MODEL_FOLDER \notin dirs']_vars

\* the construction of a Local environment has failed for want of the
\* working folder, and no folder exists
C20_Witness ==
    /\ env # NoCall /\ env.op = "LocalEnv"
    /\ env.status = "raised" /\ env.exc = "LocalEnvError"
    /\ ReadableCfg /\ dirs = {}

----------------------------------------------------------------------------
(* the ml2p-docker process *)

\* the requests the server answers before it stops
MaxRequests == 2

\* what the model of the container does: nothing out of the ordinary, or it
\* raises where the trainer or predictor is created, in train() or in setup()
Behaviours ==
    { [at |-> "nowhere", exc |-> "none"] }
    \cup { [at |-> a, exc |-> x] : a \in { "trainer", "train", "predictor", "setup" },
                                    x \in { "ValueError", "KeyboardInterrupt" } }

\* a training container or a serving one, with the class of the model in
\* its environment or not
DockerEnvirons ==
    { [ TRAINING_JOB_NAME |-> <<"job">> ],
      [ ML2P_MODEL_VERSION |-> <<"v1">> ],
      [ ML2P_MODEL_VERSION |-> <<"v1">>, ML2P_MODEL_CLS |-> <<"pkg", ".", "A">> ],
      [ ML2P_MODEL_CLS |-> <<"A">> ] }

DockerInit ==
    /\ os_environ \in DockerEnvirons
    /\ hp_file \in
         { Absent,
           File(encode(Dict(<<"ML2P_ENV">> :>
                   Dict(<<"ML2P_MODEL_CLS">> :> Str(<<"pkg", ".", "A">>)))).value) }
    /\ cfg_file = Absent
    /\ dirs \in { {ML_FOLDER}, {ML_FOLDER, OUTPUT_FOLDER} }
    /\ env = NoCall
    /\ opt_model \in { None, Str(<<"pkg", ".", "A">>), Str(<<"pkg", ".", "B">>) }
    /\ stdout = <<>> /\ failure = Absent /\ cres = NoCall
    /\ pc = "idle" /\ setups = 0 /\ teardowns = 0 /\ atexit_reg = <<>>
    /\ server_runs = 0 /\ served = 0
    /\ NamesIdle /\ CodecIdle /\ PredictorIdle /\ LocalIdle /\ ApiIdle /\ CliIdle

EnvReady == env # NoCall /\ env.status = "returned"

\* ml2p-docker train, the environment constructed
Train(behaviour) ==
    /\ pc = "idle" /\ EnvReady
    /\ \E r \in { train(ml2p_docker(opt_model, env.value), env.value, behaviour, dirs,
                         stdout, failure) } :
           /\ cres' = r.res
           /\ stdout' = r.stdout
           /\ failure' = r.failure
    /\ pc' = "exiting"
    /\ UNCHANGED <<opt_model, setups, teardowns, atexit_reg, server_runs, served,
                   nvars, cvars, evars, pvars, lvars, avars, tvars>>

\* ml2p-docker serve, the environment constructed, up to app.run
Serve(behaviour) ==
    /\ pc = "idle" /\ EnvReady
    /\ \E r \in { serve(ml2p_docker(opt_model, env.value), env.value, behaviour,
                         stdout, setups, atexit_reg) } :
           /\ stdout' = r.stdout
           /\ setups' = r.setups
           /\ atexit_reg' = r.atexit
           /\ cres' = r.res
           /\ IF r.res = NoCall
              THEN server_runs' = server_runs + 1 /\ pc' = "serving"
              ELSE server_runs' = server_runs /\ pc' = "exiting"
    /\ UNCHANGED <<opt_model, failure, teardowns, served,
                   nvars, cvars, evars, pvars, lvars, avars, tvars>>

\* the server answers a request of /invocations with app.predictor
Invocations ==
    /\ pc = "serving" /\ served < MaxRequests
    /\ served' = served + 1
    /\ UNCHANGED <<opt_model, stdout, failure, cres, pc, setups, teardowns, atexit_reg,
                   server_runs, nvars, cvars, evars, pvars, lvars, avars, tvars>>

\* app.run comes back, the server shut down, or it raises
AppRunEnds(raises) ==
    /\ pc = "serving"
    /\ IF raises
       THEN cres' = Raised("serve", [at |-> "app.run", exc |-> "OSError"], "OSError", "")
            /\ stdout' = stdout
       ELSE cres' = Returned("serve", [at |-> "nowhere", exc |-> "none"], None)
            /\ stdout' = Append(stdout, <<"Done.">>)
    /\ pc' = "exiting"
    /\ UNCHANGED <<opt_model, failure, setups, teardowns, atexit_reg, server_runs, served,
                   nvars, cvars, evars, pvars, lvars, avars, tvars>>

\* the interpreter exits and runs the callbacks registered with atexit
Exit ==
    /\ pc = "exiting"
    /\ teardowns' = teardowns + Cardinality({ i \in 1..Len(atexit_reg) :
                                                atexit_reg[i] = "teardown" })
    /\ pc' = "exited"
    /\ UNCHANGED <<opt_model, stdout, failure, cres, setups, atexit_reg, server_runs,
                   served, nvars, cvars, evars, pvars, lvars, avars, tvars>>

DockerNext ==
    \/ NewSageMakerEnv
    \/ \E behaviour \in Behaviours : Train(behaviour)
    \/ \E behaviour \in Behaviours : Serve(behaviour)
    \/ Invocations
    \/ \E raises \in BOOLEAN : AppRunEnds(raises)
    \/ Exit

SpecDocker == DockerInit /\ [][DockerNext]_vars

\* the command has echoed "Done."
DoneEchoed == \E i \in 1..Len(stdout) : stdout[i] = <<"Done.">>
\* train has got as far as the model: a model is configured and imported
TrainingStarted == cres # NoCall /\ cres.op = "train" /\ stdout # <<>>
\* the trainer could not be created or train() raised
TrainingRaised == TrainingStarted /\ cres.arg.at \in { "trainer", "train" }
TracebackOf(behaviour) == <<"Traceback", behaviour.at, behaviour.exc>>

\* C29 as stated: whenever creating the trainer or train() raises, train
\* writes the traceback to the failure file and the exception leaves the
\* command, "Done." not echoed; when training succeeds nothing is written to
\* the failure file and "Done." is echoed last
C29_AsStated ==
    /\ TrainingRaised =>
          /\ failure = File(TracebackOf(cres.arg))
          /\ cres.status = "raised" /\ cres.exc = cres.arg.exc
          /\ ~DoneEchoed
    /\ (TrainingStarted /\ ~TrainingRaised) =>
          /\ failure = Absent
          /\ cres.status = "returned"
          /\ stdout[Len(stdout)] = <<"Done.">>

\* C29 amended: when creating the trainer or train() raises an Exception
\* and the output folder exists, train writes the traceback to the failure
\* file and the exception leaves the command; when the output folder is
\* missing nothing is written and the FileNotFoundError of the write leaves
\* the command instead; an exception that is no Exception leaves the command
\* with nothing written; in all three cases "Done." is not echoed; when
\* training succeeds nothing is written to the failure file and "Done." is
\* echoed last
C29_Train ==
    /\ TrainingRaised =>
          /\ cres.status = "raised" /\ ~DoneEchoed
          /\ CASE IsException(cres.arg.exc) /\ OUTPUT_FOLDER \in dirs ->
                     failure = File(TracebackOf(cres.arg)) /\ cres.exc = cres.arg.exc
                [] IsException(cres.arg.exc) /\ OUTPUT_FOLDER \notin dirs ->
                     failure = Absent /\ cres.exc = "FileNotFoundError"
                [] OTHER ->
                     failure = Absent /\ cres.exc = cres.arg.exc
    /\ (TrainingStarted /\ ~TrainingRaised) =>
          /\ failure = Absent
          /\ cres.status = "returned"
          /\ stdout[Len(stdout)] = <<"Done.">>

\* train() has raised in a container with an output folder
C29_Witness ==
    /\ TrainingRaised /\ cres.arg = [at |-> "train", exc |-> "ValueError"]
    /\ OUTPUT_FOLDER \in dirs
    /\ failure = File(<<"Traceback", "train", "ValueError">>)
    /\ Len(stdout) = 1
\* the trainer could not be created and there is no output folder
C29_WitnessNoFolder ==
    /\ TrainingRaised /\ cres.arg = [at |-> "trainer", exc |-> "ValueError"]
    /\ OUTPUT_FOLDER \notin dirs
    /\ failure = Absent /\ cres.exc = "FileNotFoundError"
\* training has succeeded
C29_WitnessDone ==
    /\ TrainingStarted /\ cres.status = "returned"
    /\ Len(stdout) = 2 /\ DoneEchoed /\ failure = Absent

\* no model is configured: neither --model nor the environment names one
NoModel ==
    EnvReady /\ opt_model = None /\ env.value.model_cls = None

\* C30: serve calls setup() once, and before the server starts, so that no
\* request is answered by a predictor that was not set up; it registers
\* teardown() once, to run when the process exits; with no model configured
\* it fails with a usage error, setup() not called and the server not started
C30_Serve ==
    /\ setups <= 1 /\ server_runs <= 1 /\ teardowns <= 1
    /\ server_runs > 0 => setups = 1 /\ atexit_reg = <<"teardown">>
    /\ served > 0 => setups = 1 /\ server_runs = 1
    /\ (cres # NoCall /\ cres.op = "serve" /\ cres.arg.at = "setup") =>
          server_runs = 0 /\ served = 0
    /\ (server_runs > 0 /\ pc = "exited") => teardowns = 1
    /\ (NoModel /\ cres # NoCall /\ pc # "idle") =>
          /\ cres.status = "raised" /\ cres.exc = "UsageError"
          /\ setups = 0 /\ server_runs = 0 /\ teardowns = 0

\* the server has answered requests and the process has exited
C30_Witness ==
    /\ served > 0 /\ setups = 1 /\ server_runs = 1
    /\ pc = "exited" /\ teardowns = 1 /\ DoneEchoed
\* serve without a model
C30_WitnessNoModel ==
    /\ NoModel /\ cres # NoCall /\ cres.op = "serve" /\ cres.exc = "UsageError"
    /\ pc = "exited" /\ setups = 0 /\ server_runs = 0
\* setup() has raised
C30_WitnessSetupRaises ==
    /\ cres # NoCall /\ cres.op = "serve"
    /\ cres.arg.at = "setup" /\ cres.status = "raised"
    /\ setups = 1 /\ server_runs = 0

----------------------------------------------------------------------------
(* names derived from names *)

Accepted(n, resource) == validate_name(n, resource).status = "returned"

\* C28: the names derived by default pass validation: for a name accepted as
\* a model name, training_job_name_for_model returns a name accepted as a
\* training-job name, and for a name accepted as an endpoint name,
\* model_name_for_endpoint returns a name accepted as a model name
C28_DerivedNamesValidate ==
    /\ (nres.op = "training_job_name_for_model" /\ Accepted(name, "model")) =>
           nres.status = "returned" /\ Accepted(nres.value, "training-job")
    /\ (nres.op = "model_name_for_endpoint" /\ Accepted(name, "endpoint")) =>
           nres.status = "returned" /\ Accepted(nres.value, "model")

\* the model name of an endpoint of a development model in a stage
C28_Witness ==
    /\ nres.op = "model_name_for_endpoint" /\ Accepted(name, "endpoint")
    /\ EndsWith(name, <<"-", "dev", "-", "live">>)
    /\ nres.status = "returned" /\ EndsWith(nres.value, <<"-", "dev">>)
    /\ Accepted(nres.value, "model")
\* the training job name of a development model
C28_WitnessTrainingJob ==
    /\ nres.op = "training_job_name_for_model" /\ Accepted(name, "model")
    /\ EndsWith(name, <<"-", "dev">>)
    /\ nres.status = "returned" /\ Accepted(nres.value, "training-job")

----------------------------------------------------------------------------
(* recording that cannot be done *)

\* C25: where recordInvokes is true and there is no storage root, invoke
\* does not return the prediction: once it has computed it the call raises,
\* and it performs no storage write
C25_RecordingWithoutRoot ==
    (ires.op = "invoke" /\ Recording /\ env.value.s3 = None) =>
        /\ ires.status = "raised"
        /\ PredictionComputed => ires.exc = "AttributeError" /\ uuids > 0
        /\ put_log = <<>> /\ puts = 0
        /\ s3_objects = <<>>

\* a Serve environment with ML2P_RECORD_INVOKES "true" and no ML2P_S3_URL, an
\* invoke whose prediction was computed
C25_Witness ==
    /\ IsServe /\ DOMAIN os_environ = {"ML2P_RECORD_INVOKES"}
    /\ os_environ["ML2P_RECORD_INVOKES"] = <<"true">>
    /\ ires.op = "invoke" /\ PredictionComputed
    /\ ires.status = "raised" /\ ires.exc = "AttributeError"

\* the body of a record pairs the input with a prediction for it
RecordOf(body, datum) ==
    /\ json_loads(body).ok
    /\ json_loads(body).v.v[<<"input">>] = datum
    /\ json_loads(body).v.v[<<"result">>].v[<<"result">>]
          = Dict(<<"probability">> :> datum.v[<<"input">>])

\* C26: when S3 refuses the write for the k-th input of a batch_invoke that
\* records, the records of the first k-1 inputs are stored, no write is
\* attempted for the inputs after the k-th, and batch_invoke raises and
\* returns no prediction
C26_BatchWriteFails ==
    \A k \in 1..Len(put_log) :
        (ires.op = "batch_invoke" /\ ~put_log[k].ok) =>
            /\ Len(put_log) = k
            /\ \A i \in 1..(k - 1) :
                  /\ put_log[i].ok
                  /\ <<put_log[i].Bucket, put_log[i].Key>> \in DOMAIN s3_objects
                  /\ s3_objects[<<put_log[i].Bucket, put_log[i].Key>>] = put_log[i].Body
                  /\ RecordOf(put_log[i].Body, ires.arg[i])
            /\ <<put_log[k].Bucket, put_log[k].Key>> \notin DOMAIN s3_objects
            /\ ires.status = "raised"

\* S3 has refused the first write of a batch of two: nothing was attempted
\* for the second input
C26_Witness ==
    /\ ires.op = "batch_invoke" /\ Len(ires.arg) = 2 /\ Recording
    /\ Len(put_log) = 1 /\ ~put_log[1].ok
    /\ ires.status = "raised"
\* S3 has refused the second write of a batch of two after it took the first
C26_WitnessSecond ==
    /\ ires.op = "batch_invoke" /\ Len(ires.arg) = 2 /\ Recording
    /\ Len(put_log) = 2 /\ put_log[1].ok /\ ~put_log[2].ok
    /\ RecordOf(s3_objects[<<put_log[1].Bucket, put_log[1].Key>>], ires.arg[1])

----------------------------------------------------------------------------
(* a training job created from the command line and run by SageMaker *)

\* the models sections explored: none listed, one, two
ModelsSections ==
    { <<>>,
      (<<"a">> :> Str(<<"pkg", ".", "A">>)),
      (<<"a">> :> Str(<<"pkg", ".", "A">>)) @@ (<<"b">> :> Str(<<"pkg", ".", "B">>)) }

GoodTrain ==
    [ image |-> Str(<<"img">>), instance_type |-> Str(<<"ml.m5">>), role |-> Str(<<"arn">>) ]

\* the train sections explored: complete, without a role, with a vpc_config
\* that is complete and with one that has no subnets
TrainSections ==
    { GoodTrain,
      [ image |-> Str(<<"img">>), instance_type |-> Str(<<"ml.m5">>) ],
      GoodTrain @@ [ vpc_config |->
          Dict((<<"security_groups">> :> List(<<Str(<<"sg">>)>>))
               @@ (<<"subnets">> :> List(<<Str(<<"net">>)>>))) ],
      GoodTrain @@ [ vpc_config |->
          Dict((<<"security_groups">> :> List(<<Str(<<"sg">>)>>))
               @@ (<<"subnets">> :> List(<<>>))) ] }

\* the s3folder values explored: with a prefix, without, with a prefix of two
\* segments closed by "/", without a scheme, and too long for a hyperparameter
S3Folders ==
    { <<"s3:", "/", "/", "bkt", "/", "root">>,
      <<"s3:", "/", "/", "bkt">>,
      <<"s3:", "/", "/", "bkt", "/", "a", "/", "b", "/">>,
      <<"bkt", "/", "root">>,
      <<"s3:", "/", "/", "bkt", "/", "a*250", "/", "b*250">> }

ProjectNames == { <<"prj">>, <<"null">> }

CliCfgs ==
    { File([ project |-> p, s3folder |-> u, models |-> m, train |-> t ])
        : p \in ProjectNames, u \in S3Folders, m \in ModelsSections, t \in TrainSections }

\* the --model-type given: none, a listed one when any is, one never listed
ModelTypeOptions == { None, Str(<<"a">>), Str(<<"c">>) }

CliInit ==
    /\ cfg_file \in CliCfgs
    /\ opt_model_type \in ModelTypeOptions
    /\ vres = NoCall /\ job = NoCall
    /\ os_environ = <<>> /\ hp_file = Absent /\ dirs = {ML_FOLDER} /\ env = NoCall
    /\ NamesIdle /\ CodecIdle /\ PredictorIdle /\ LocalIdle /\ ApiIdle /\ DockerIdle

\* click calls the callback of --model-type
ValidateModelType ==
    /\ vres = NoCall
    /\ vres' = validate_model_type(ModellingProject(cfg_file).value, opt_model_type)
    /\ UNCHANGED <<opt_model_type, job, nvars, cvars, evars, pvars, lvars, avars, dvars>>

\* ml2p training-job create TRAINING_JOB DATASET, the option validated
TrainingJobCreate(training_job, dataset) ==
    /\ vres # NoCall /\ vres.status = "returned"
    /\ job = NoCall
    /\ \E v \in { validate_name(training_job, "training-job") } :
           job' = IF v.status = "raised" THEN v
                  ELSE mk_training_job(ModellingProject(cfg_file).value, training_job,
                                       dataset, vres.value)
    /\ UNCHANGED <<opt_model_type, vres, nvars, cvars, evars, pvars, lvars, avars, dvars>>

\* SageMaker runs the job: it writes the HyperParameters to the
\* hyperparameters file, sets TRAINING_JOB_NAME, and the container constructs
\* its SageMakerEnv
RunTrainingJob ==
    /\ job # NoCall /\ job.status = "returned"
    /\ env = NoCall
    /\ hp_file' = File(job.value.HyperParameters)
    /\ os_environ' = (MARKER :> job.value.TrainingJobName)
    /\ env' = SageMakerEnv_init(os_environ', hp_file')
    /\ UNCHANGED <<cfg_file, dirs, tvars, nvars, cvars, pvars, lvars, avars, dvars>>

TrainingJobs == { <<"m", "-", "0", "-", "1">>, <<"m">> }

CliNext ==
    \/ ValidateModelType
    \/ \E training_job \in TrainingJobs, dataset \in { <<"d">> } :
          TrainingJobCreate(training_job, dataset)
    \/ RunTrainingJob

SpecCli == CliInit /\ [][CliNext]_vars

\* the model types the configuration lists, and the project it describes
ListedTypes == DOMAIN Get(cfg_file.content, "models", <<>>)
JobCreated == job # NoCall /\ job.op = "mk_training_job" /\ job.status = "returned"

C23_WitnessNoType ==
    /\ JobCreated /\ env # NoCall /\ vres.value = None
    /\ cfg_file.content.s3folder = <<"s3:", "/", "/", "bkt">>
    /\ env.value.model_cls = None

\* C27: validate_model_type returns no type the configuration does not list:
\* a type given and not listed is refused with BadParameter; a type left out
\* gives None when no type is listed, the type listed when there is one, and
\* BadParameter when there are several
C27_ValidateModelType ==
    vres # NoCall =>
        /\ vres.status = "returned" =>
              vres.value = None \/ vres.value.v \in ListedTypes
        /\ opt_model_type # None /\ opt_model_type.v \notin ListedTypes =>
              vres.status = "raised" /\ vres.exc = "BadParameter"
        /\ opt_model_type = None =>
              CASE Cardinality(ListedTypes) = 0 ->
                     vres.status = "returned" /\ vres.value = None
                [] Cardinality(ListedTypes) = 1 ->
                     vres.status = "returned" /\ {vres.value.v} = ListedTypes
                [] OTHER -> vres.status = "raised" /\ vres.exc = "BadParameter"

\* C27 where the configuration lists a model type
C27_WhenTypesListed == ListedTypes # {} => C27_ValidateModelType
C27_WitnessListed ==
    /\ vres # NoCall /\ Cardinality(ListedTypes) = 2
    /\ opt_model_type = Str(<<"c">>) /\ vres.status = "raised"
\* a type the configuration does not list, returned, and the KeyError of
\* mk_training_job that follows
C27_UnlistedReturned ==
    /\ vres # NoCall /\ vres.status = "returned"
    /\ vres.value = Str(<<"c">>) /\ ListedTypes = {}
    /\ job # NoCall /\ job.status = "raised" /\ job.exc = "KeyError"

----------------------------------------------------------------------------
(* errors raised while the API handles a request *)

Messages == { Str(<<"m">>), Str(<<>>) }
Details ==
    { None, Str(<<"d">>), Str(<<>>), List(<<>>), List(<<Str(<<"d">>)>>),
      List(<<Str(<<"a">>), Str(<<"b">>)>>) }
StatusCodes == { None, Num(0), Num(400), Num(404), Num(500), Num(503) }

ApiInit ==
    /\ api_exc = NoCall /\ response = NoCall
    /\ NamesIdle /\ CodecIdle /\ EnvIdle /\ PredictorIdle
    /\ LocalIdle /\ CliIdle /\ DockerIdle

\* a view raises cls(message, details, status_code) and the API handles it
RaiseAPIError(cls, message, details, status_code) ==
    /\ api_exc = NoCall
    /\ \E exc \in { APIError_init(cls, message, details, status_code) } :
           /\ api_exc' = Returned(cls, [message |-> message, details |-> details,
                                        status_code |-> status_code], exc)
           /\ response' = handle_user_exception(exc)
    /\ UNCHANGED <<nvars, cvars, evars, pvars, lvars, tvars, dvars>>

\* a view raises an exception that is no APIError and the API handles it
RaiseOther(cls, message) ==
    /\ api_exc = NoCall
    /\ \E exc \in { OtherException(cls, message) } :
           /\ api_exc' = Returned(cls, [message |-> message], exc)
           /\ response' = handle_user_exception(exc)
    /\ UNCHANGED <<nvars, cvars, evars, pvars, lvars, tvars, dvars>>

ApiNext ==
    \/ \E cls \in APIErrors, message \in Messages, details \in Details,
          status_code \in StatusCodes : RaiseAPIError(cls, message, details, status_code)
    \/ \E cls \in HTTPExceptions \cup { "ValueError" }, message \in Messages :
          RaiseOther(cls, message)

SpecApi == ApiInit /\ [][ApiNext]_vars

\* the list the details given at construction stand for
DetailsList(details) ==
    CASE details = None -> List(<<>>)
      [] details.t = "str" -> List(<<details>>)
      [] OTHER -> details

\* the status code an API error declares
DeclaredStatus(cls, status_code) ==
    IF status_code # None THEN status_code
    ELSE IF cls = "ClientError" THEN Num(400) ELSE Num(500)

APIErrorRaised == api_exc # NoCall /\ api_exc.op \in APIErrors

\* C22: an APIError raised while a request is handled yields a body with
\* the message and the details of the error and the status code it declares:
\* the status_code given at construction, else 400 for a ClientError and 500
\* for a ServerError and an APIError; the details are a list, the empty one
\* for None and the list of the one string for a string
C22_APIErrorResponse ==
    APIErrorRaised =>
        /\ response.status = "returned"
        /\ response.value.body =
              Dict((<<"message">> :> api_exc.arg.message)
                   @@ (<<"details">> :> DetailsList(api_exc.arg.details)))
        /\ response.value.body.v[<<"details">>].t = "list"
        /\ response.value.status = DeclaredStatus(api_exc.op, api_exc.arg.status_code)

C22_Witness ==
    /\ APIErrorRaised /\ api_exc.op = "ClientError"
    /\ api_exc.arg.details = Str(<<"d">>) /\ api_exc.arg.status_code = None
    /\ response.value.status = Num(400)
C22_WitnessStatusGiven ==
    /\ APIErrorRaised /\ api_exc.op = "ServerError"
    /\ api_exc.arg.details = None /\ api_exc.arg.status_code = Num(0)
    /\ response.value.status = Num(0)

----------------------------------------------------------------------------
(* downloads of a local environment *)

DownloadCalled(op) == lres # NoCall /\ lres.op = op

\* C21: in a local environment that has no storage session, download_dataset
\* and download_model each raise LocalEnvError, issue no storage request and
\* create no local folder and no local file
C21_NoSessionNoDownload ==
    [][ session = None /\ lres' # lres =>
          /\ lres'.status = "raised" /\ lres'.exc = "LocalEnvError"
          /\ requests' = <<>>
          /\ dirs' = dirs /\ local_dirs' = local_dirs /\ local_files' = local_files ]_vars

C21_Witness ==
    /\ session = None /\ s3_objects # <<>>
    /\ DownloadCalled("download_model") /\ lres.exc = "LocalEnvError"
C21_WitnessDataset ==
    /\ session = None /\ s3_objects # <<>>
    /\ DownloadCalled("download_dataset") /\ lres.exc = "LocalEnvError"

\* the prefix of the storage root of the project, and the remote folder of a
\* dataset, "<prefix>/datasets/<dataset>/"
RootPrefix ==
    LET u == cfg_file.content.s3folder IN LStrip(SubSeq(u, 5, Len(u)), "/")
DatasetFolder(dataset) ==
    (IF RootPrefix = <<>> THEN <<>> ELSE RootPrefix \o <<"/">>)
        \o <<"datasets", "/">> \o dataset \o <<"/">>

\* the keys of the bucket under the folder of a dataset, placeholders apart
FilesOf(dataset) ==
    { k \in { at[2] : at \in DOMAIN s3_objects } :
        StartsWith(k, DatasetFolder(dataset)) /\ ~EndsWith(k, <<"/">>) }

\* the keys the last call asked to download
Fetched == { requests[i].Key : i \in { j \in 1..Len(requests) : requests[j].op = "download_fileobj" } }

\* the local path of a key of a dataset: its path below the folder of the
\* dataset, under the training folder
LocalPathOf(dataset, k) ==
    TRAINING_FOLDER \o <<"/">> \o SubSeq(k, Len(DatasetFolder(dataset)) + 1, Len(k))

\* C24: download_dataset(d) fetches exactly the objects under
\* "<prefix>/datasets/d/" that are no placeholders ending in "/", each to its
\* path relative to that folder, and none of a dataset whose name only begins
\* with d
C24_DownloadDataset ==
    session # None /\ DownloadCalled("download_dataset") =>
        /\ lres.status = "returned"
        /\ Fetched = FilesOf(lres.arg)
        /\ \A k \in FilesOf(lres.arg) :
              /\ LocalPathOf(lres.arg, k) \in DOMAIN local_files
              /\ local_files[LocalPathOf(lres.arg, k)] = s3_objects[<<<<"bkt">>, k>>]

\* the bucket holds nothing whose key begins with "<prefix>/datasets/d" except
\* under the folder "<prefix>/datasets/d/"
DatasetAlone(dataset) ==
    \A at \in DOMAIN s3_objects :
        StartsWith(at[2], DropLast(DatasetFolder(dataset), 1))
            => StartsWith(at[2], DatasetFolder(dataset))

\* C24 where no other key begins with the name of the dataset
C24_OnDatasetsAlone ==
    session # None /\ DownloadCalled("download_dataset") /\ DatasetAlone(lres.arg)
        => C24_DownloadDataset
C24_WitnessAlone ==
    /\ session # None /\ DownloadCalled("download_dataset") /\ DatasetAlone(lres.arg)
    /\ Cardinality(FilesOf(lres.arg)) = 2
    /\ \E at \in DOMAIN s3_objects : EndsWith(at[2], <<"/">>)
\* a file of dataset d2 fetched by download_dataset("d")
C24_FetchesOtherDataset ==
    /\ DownloadCalled("download_dataset") /\ lres.arg = <<"d">>
    /\ \E k \in Fetched : k \in FilesOf(<<"d", "2">>)

====
